---- MODULE Spec2Model ----
(***************************************************************************)
(* Model of the WasmWorker message bridge (packages/sdk: types.ts,         *)
(* bridge.ts, worker/runtime.ts).                                          *)
(*                                                                         *)
(* Spec is the Controller (class WasmWorker) driven by its public methods  *)
(* and by an arbitrary environment that delivers inbound messages and      *)
(* worker error events: the listener handleMessage is applied to every     *)
(* well-formed WorkerResponse, matching id or not.                         *)
(***************************************************************************)
EXTENDS Integers, Sequences, FiniteSets, TLC

\* ------------------------------------------------------------------ bounds

\* Number of distinct ids generateId can return (one per init/call/stream).
MaxIds == 3
\* Number of distinct payload / result values.
MaxVal == 1
\* Number of generators created by stream() that have not run yet.
MaxStreams == 1
\* Number of stream_chunk messages recorded for one open stream.
MaxChunks == 2

\* --------------------------------------------------------------- constants

\* `value?: unknown` left out, `details?: unknown` left out, payload left out.
Undefined == 0
\* ReadyMsg carries no id: msg.id reads as undefined.
NoId == 0

Ids == 1..MaxIds
Values == 1..MaxVal

\* type ErrorCode
ErrorCode ==
    {"MODULE_FETCH_FAILED", "WASM_INIT_FAILED", "FN_NOT_FOUND", "INVALID_PAYLOAD",
     "WASM_TRAP", "NOT_INITIALIZED", "UNKNOWN_ERROR"}

\* An Error object: message, and the code / details properties createError adds.
\* code "" stands for an Error that has no code property.
NoError == [code |-> "", message |-> "", details |-> Undefined]

\* The error payloads the environment puts into error messages.
EnvErrors ==
    {[code |-> "FN_NOT_FOUND", message |-> "Function not found", details |-> 1],
     [code |-> "WASM_TRAP", message |-> "WASM execution error", details |-> Undefined]}

\* Function names and payloads the caller passes to call() and stream().
FnNames == {"add", "missingFn"}
Payloads == {Undefined} \cup Values
\* The (fn, payload) pairs the caller passes; the Controller copies them into
\* the message and reads neither.
CallArgs == {<<"add", 1>>}

\* -------------------------------------------------------------- messages

\* WorkerResponse: ResultMsg | ErrorMsg | StreamChunkMsg | StreamCloseMsg | ReadyMsg
ReadyMsg == [type |-> "ready", id |-> NoId, value |-> Undefined, error |-> NoError]
ResultMsg(id, value) == [type |-> "result", id |-> id, value |-> value, error |-> NoError]
ErrorMsg(id, error) == [type |-> "error", id |-> id, value |-> Undefined, error |-> error]
StreamChunkMsg(id, value) ==
    [type |-> "stream_chunk", id |-> id, value |-> value, error |-> NoError]
StreamCloseMsg(id) ==
    [type |-> "stream_close", id |-> id, value |-> Undefined, error |-> NoError]

WorkerResponse ==
    {ReadyMsg}
    \cup {ResultMsg(id, v) : id \in Ids, v \in Values \cup {Undefined}}
    \cup {ErrorMsg(id, e) : id \in Ids, e \in EnvErrors}
    \cup {StreamChunkMsg(id, v) : id \in Ids, v \in Values}
    \cup {StreamCloseMsg(id) : id \in Ids}

NoMsg == [type |-> "none", id |-> NoId, value |-> Undefined, error |-> NoError]

\* WorkerRequest: InitMsg | CallMsg | StreamOpenMsg
WorkerRequest(type, id, fn, payload) ==
    [type |-> type, id |-> id, fn |-> fn, payload |-> payload]

\* ----------------------------------------------------------------- state

VARIABLES
    worker,              \* WasmWorker.worker: "null" or "live"
    initialized,         \* WasmWorker.initialized
    pendingRequests,     \* WasmWorker.pendingRequests: id -> PendingRequest
    streamingRequests,   \* WasmWorker.streamingRequests: the ids in the map
    request,             \* the StreamingRequest object each stream() body holds
    promise,             \* the promise call() returned for each id
    loadPromise,         \* the promise init() returned
    consumer,            \* position of each started stream() generator
    unstarted,           \* generators created by stream() and not yet run
    outbox,              \* messages posted with worker.postMessage, in order
    issued,              \* the ids generateId has returned
    workerTerminations,  \* how many times Worker.terminate() was invoked
    settles,             \* per id: how many times its resolve / reject was invoked
    last,                \* the operation that produced this state
    received,            \* per stream id: the chunk values handled for it, in order
    runtime,             \* the worker script: "none", "running", "failed" or "terminated"
    state,               \* the Runtime's `state` object
    initInProgress,      \* the init messages whose handleInit is suspended
    taken,               \* how many messages of outbox the Runtime's listener has taken
    inbound,             \* messages the Runtime posted, not yet handed to the Controller
    called               \* the invocation the Runtime made last

ctrlVars ==
    <<worker, initialized, pendingRequests, streamingRequests, workerTerminations>>
streamVars == <<request, consumer, unstarted>>
promiseVars == <<promise, loadPromise, settles>>
rtVars == <<runtime, state, initInProgress, taken, inbound, called>>
vars ==
    <<worker, initialized, pendingRequests, streamingRequests, request, promise,
      loadPromise, consumer, unstarted, outbox, issued, workerTerminations,
      settles, last, received, runtime, state, initInProgress, taken, inbound,
      called>>

\* A promise: state is "none" (not created), "pending", "resolved" or "rejected".
NoPromise == [state |-> "none", value |-> Undefined, error |-> NoError]
PendingPromise == [state |-> "pending", value |-> Undefined, error |-> NoError]

\* Promise semantics: resolve / reject act on a pending promise only.
Resolve(p, v) ==
    IF p.state = "pending" THEN [state |-> "resolved", value |-> v, error |-> NoError]
    ELSE p
Reject(p, e) ==
    IF p.state = "pending" THEN [state |-> "rejected", value |-> Undefined, error |-> e]
    ELSE p

\* interface StreamingRequest. waiter is what request.resolve / request.reject
\* refer to: "noop" (the initial () => {}), "live" (the callbacks of the promise
\* the generator is awaiting) or "stale" (callbacks of a promise already settled).
NoRequest == [queue |-> <<>>, waiter |-> "none", done |-> FALSE]
NewRequest == [queue |-> <<>>, waiter |-> "noop", done |-> FALSE]

\* A stream() generator: pc is "none", "awaiting" (suspended at the await),
\* "woken" / "thrown" (the awaited promise was resolved / rejected and the
\* continuation is queued), "yielded" (suspended at the yield), "ended"
\* (returned) or "failed" (threw `error`). yielded is what it has yielded.
\* returning: the consumer called return() while the body was running (at the
\* await), so the request waits in the generator's queue.
NoConsumer == [pc |-> "none", error |-> NoError, yielded |-> <<>>, returning |-> FALSE]

\* pendingRequests maps an id to its PendingRequest, a pair of callbacks: those
\* init() registers ("init": resolve sets initialized and resolves the load
\* promise, reject rejects it) or those call() registers ("call": resolve and
\* reject of the promise call() returned for that id). Absent: no entry.
Absent == "absent"

\* `last`: the operation that was run last and its input: the type and id of
\* the message it handled (handleMessage) or the id it generated (init, call,
\* stream), the value and error the message carried (recorded when the message
\* matched an entry; a dropped message's payload is read by nothing and is not
\* recorded), the message of the Error it threw, and the branch it took.
NoLast ==
    [op |-> "new", type |-> "none", id |-> NoId, value |-> Undefined,
     error |-> NoError, threw |-> "", branch |-> ""]

\* null, as the value of state.instance and state.memory.
Null == 0

\* const state: RuntimeState = { instance: null, memory: null, initialized: false }
\* An instance is named by the id of the init message whose handleInit
\* instantiated it, and so is its memory export.
NoState == [instance |-> Null, memory |-> Null, initialized |-> FALSE]

\* No function was invoked: the name and the arguments of an invocation.
NoCall == [fn |-> "", args |-> <<>>]

Init ==
    /\ worker = "null"
    /\ initialized = FALSE
    /\ pendingRequests = [i \in Ids |-> Absent]
    /\ streamingRequests = {}
    /\ request = [i \in Ids |-> NoRequest]
    /\ promise = [i \in Ids |-> NoPromise]
    /\ loadPromise = NoPromise
    /\ consumer = [i \in Ids |-> NoConsumer]
    /\ unstarted = 0
    /\ outbox = <<>>
    /\ issued = {}
    /\ workerTerminations = 0
    /\ settles = [i \in Ids |-> 0]
    /\ last = NoLast
    /\ received = [i \in Ids |-> <<>>]
    /\ runtime = "none"
    /\ state = NoState
    /\ initInProgress = {}
    /\ taken = 0
    /\ inbound = <<>>
    /\ called = NoCall

\* Map.has(id) / the truthiness of Map.get(id)
MapHas(map, id) == id \in Ids /\ map[id] # Absent
\* Map.set(id, entry)
MapSet(map, id, entry) == [map EXCEPT ![id] = entry]
\* Map.delete(id)
MapDelete(map, id) == [k \in Ids |-> IF k = id THEN Absent ELSE map[k]]
\* Map.clear()
MapClear == [k \in Ids |-> Absent]
\* the keys of the map
MapKeys(map) == {k \in Ids : map[k] # Absent}

\* generateId(): crypto.randomUUID(), or the time-and-random fallback. The
\* bridge uses an id only as a Map key and as the id field of a message, so
\* ids are compared for equality and nothing else; what the platform promises
\* of the value is that it was not handed out before. The operator is the set
\* of values one invocation may return: empty when the model's ids are used
\* up, and otherwise one id not yet issued (which one is immaterial under
\* renaming of ids, so the least is taken).
generateId ==
    LET fresh == Ids \ issued
    IN  IF fresh = {} THEN {} ELSE {CHOOSE i \in fresh : \A j \in fresh : i <= j}


\* The step is taken by operation op; the record is `last` in the next state.
Did(op, msg, id, threw, branch) ==
    last' = [op |-> op, type |-> msg.type, id |-> id,
             value |-> IF branch = "dropped" THEN Undefined ELSE msg.value,
             error |-> IF branch = "dropped" THEN NoError ELSE msg.error,
             threw |-> threw, branch |-> branch]

\* No started generator has a continuation queued: promise reactions run
\* before the next task (a message or error event) is dispatched.
MicrotasksDone == \A i \in Ids : consumer[i].pc \notin {"woken", "thrown"}

\* ------------------------------------------------------- WasmWorker.init

\* Mutant of init: the init message is posted a second time.
init_PostsTwice(outcome) ==
    /\ loadPromise.state = "none"
    /\ outcome \in {"ok", "createThrows", "postThrows"}
    /\ IF outcome = "createThrows"
       THEN /\ loadPromise' = Reject(PendingPromise,
                  [code |-> "", message |-> "Failed to create worker", details |-> Undefined])
            /\ Did("init", NoMsg, NoId, "Failed to create worker", outcome)
            /\ UNCHANGED <<worker, pendingRequests, outbox, issued>>
       ELSE \E id \in generateId :
            /\ worker' = "live"
            /\ issued' = issued \cup {id}
            /\ pendingRequests' = MapSet(pendingRequests, id, "init")
            /\ IF outcome = "ok"
               THEN /\ outbox' = outbox \o <<WorkerRequest("init", id, "", Undefined),
                                             WorkerRequest("init", id, "", Undefined)>>
                    /\ loadPromise' = PendingPromise
                    /\ Did("init", NoMsg, id, "", outcome)
               ELSE /\ outbox' = outbox
                    /\ loadPromise' = Reject(PendingPromise,
                          [code |-> "", message |-> "Failed to create worker",
                           details |-> Undefined])
                    /\ Did("init", NoMsg, id, "Failed to create worker", outcome)
    /\ UNCHANGED <<initialized, streamingRequests, workerTerminations, streamVars,
                   promise, settles>>

\* init(options), run once per instance by load(). outcome is what the
\* platform does inside the try block: "ok"; "createThrows" (new URL / new
\* Worker throws before this.worker is assigned); "postThrows" (postMessage
\* throws, e.g. options.init cannot be cloned, after the entry was registered).
init(outcome) ==
    /\ loadPromise.state = "none"
    /\ outcome \in {"ok", "createThrows", "postThrows"}
    /\ IF outcome = "createThrows"
       THEN /\ loadPromise' = Reject(PendingPromise,
                  [code |-> "", message |-> "Failed to create worker", details |-> Undefined])
            /\ Did("init", NoMsg, NoId, "Failed to create worker", outcome)
            /\ UNCHANGED <<worker, pendingRequests, outbox, issued>>
       ELSE \E id \in generateId :
            /\ worker' = "live"
            /\ issued' = issued \cup {id}
            /\ pendingRequests' = MapSet(pendingRequests, id, "init")
            /\ IF outcome = "ok"
               THEN /\ outbox' = Append(outbox, WorkerRequest("init", id, "", Undefined))
                    /\ loadPromise' = PendingPromise
                    /\ Did("init", NoMsg, id, "", outcome)
               ELSE /\ outbox' = outbox
                    /\ loadPromise' = Reject(PendingPromise,
                          [code |-> "", message |-> "Failed to create worker",
                           details |-> Undefined])
                    /\ Did("init", NoMsg, id, "Failed to create worker", outcome)
    /\ UNCHANGED <<initialized, streamingRequests, workerTerminations, streamVars,
                   promise, settles>>

\* Mutant of workerErrorEvent: the listener also discards the pending entries.
workerErrorEvent_ClearsPending ==
    /\ worker = "live"
    /\ MicrotasksDone
    /\ loadPromise' = Reject(loadPromise,
          [code |-> "", message |-> "Worker error", details |-> Undefined])
    /\ pendingRequests' = MapClear
    /\ Did("workerError", NoMsg, NoId, "", "")
    /\ UNCHANGED <<worker, initialized, streamingRequests, workerTerminations, streamVars,
                   promise, settles, outbox, issued>>

\* The 'error' listener init() installs on the worker: reject(new Error(...)).
workerErrorEvent ==
    /\ worker = "live"
    /\ MicrotasksDone
    /\ loadPromise' = Reject(loadPromise,
          [code |-> "", message |-> "Worker error", details |-> Undefined])
    /\ Did("workerError", NoMsg, NoId, "", "")
    /\ UNCHANGED <<ctrlVars, streamVars, promise, settles, outbox, issued>>

\* ---------------------------------------------- WasmWorker.handleMessage

\* Mutant of createError: the Controller puts a code of its own on the error.
createError_OwnCode(code, message, details) ==
    [code |-> "UNKNOWN_ERROR", message |-> message, details |-> details]

\* createError(code, message, details)
createError(code, message, details) ==
    [code |-> code, message |-> message, details |-> details]

\* Mutant of PendingResolve: the init entry's resolve sets the flag and does
\* not resolve the promise init() returned.
PendingResolve_SkipsLoad(id, value) ==
    IF pendingRequests[id] = "init"
    THEN /\ initialized' = TRUE
         /\ loadPromise' = loadPromise
         /\ promise' = promise
    ELSE /\ promise' = [promise EXCEPT ![id] = Resolve(@, value)]
         /\ UNCHANGED <<initialized, loadPromise>>

\* pending.resolve(value) for the entry registered under id.
PendingResolve(id, value) ==
    IF pendingRequests[id] = "init"
    THEN /\ initialized' = TRUE
         /\ loadPromise' = Resolve(loadPromise, Undefined)
         /\ promise' = promise
    ELSE /\ promise' = [promise EXCEPT ![id] = Resolve(@, value)]
         /\ UNCHANGED <<initialized, loadPromise>>

\* pending.reject(error) for the entry registered under id.
PendingReject(id, error) ==
    IF pendingRequests[id] = "init"
    THEN /\ loadPromise' = Reject(loadPromise, error)
         /\ promise' = promise
    ELSE /\ promise' = [promise EXCEPT ![id] = Reject(@, error)]
         /\ loadPromise' = loadPromise

\* streaming.resolve(...) / streaming.reject(...): settles the promise the
\* generator awaits when the callbacks are those of an unsettled promise, and
\* does nothing otherwise. how is "woken" (resolve) or "thrown" (reject).
WaiterSettle(id, req, how, error) ==
    /\ request' = [request EXCEPT ![id] =
          [req EXCEPT !.waiter = IF @ = "live" THEN "stale" ELSE @]]
    /\ consumer' =
          IF req.waiter = "live"
          THEN [consumer EXCEPT ![id] = [@ EXCEPT !.pc = how, !.error = error]]
          ELSE consumer

\* Mutant of HandleReady: ready is taken as the end of the handshake.
HandleReady_MarksInitialized(msg) ==
    /\ msg.type = "ready"
    /\ initialized' = TRUE
    /\ Did("handleMessage", msg, NoId, "", "ready")
    /\ UNCHANGED <<worker, pendingRequests, streamingRequests, workerTerminations,
                   streamVars, promiseVars, outbox, issued>>

\* if ('type' in msg && msg.type === 'ready') return;
HandleReady(msg) ==
    /\ msg.type = "ready"
    /\ Did("handleMessage", msg, NoId, "", "ready")
    /\ UNCHANGED <<ctrlVars, streamVars, promiseVars, outbox, issued>>

\* Mutant of HandleResult: a result settles the oldest pending entry (a Map
\* iterates in insertion order, and ids are issued in increasing order).
HandleResult_Fifo(msg) ==
    /\ msg.type = "result"
    /\ IF MapKeys(pendingRequests) # {}
       THEN LET oldest == CHOOSE k \in MapKeys(pendingRequests) :
                              \A j \in MapKeys(pendingRequests) : k <= j
            IN  /\ PendingResolve(oldest, msg.value)
                /\ settles' = [settles EXCEPT ![oldest] = @ + 1]
                /\ pendingRequests' = MapDelete(pendingRequests, oldest)
                /\ Did("handleMessage", msg, msg.id, "", "resolved")
       ELSE /\ Did("handleMessage", msg, msg.id, "", "dropped")
            /\ UNCHANGED <<initialized, pendingRequests, promiseVars>>
    /\ UNCHANGED <<worker, streamingRequests, workerTerminations, streamVars, outbox,
                   issued>>

\* Mutant of HandleResult: the entry is resolved and left in the map.
HandleResult_KeepsEntry(msg) ==
    /\ msg.type = "result"
    /\ IF MapHas(pendingRequests, msg.id)
       THEN /\ PendingResolve(msg.id, msg.value)
            /\ settles' = [settles EXCEPT ![msg.id] = @ + 1]
            /\ pendingRequests' = pendingRequests
            /\ Did("handleMessage", msg, msg.id, "", "resolved")
       ELSE /\ Did("handleMessage", msg, msg.id, "", "dropped")
            /\ UNCHANGED <<initialized, pendingRequests, promiseVars>>
    /\ UNCHANGED <<worker, streamingRequests, workerTerminations, streamVars, outbox,
                   issued>>

\* Mutant of HandleResult: the carried value is not passed on.
HandleResult_LosesValue(msg) ==
    /\ msg.type = "result"
    /\ IF MapHas(pendingRequests, msg.id)
       THEN /\ PendingResolve(msg.id, Undefined)
            /\ settles' = [settles EXCEPT ![msg.id] = @ + 1]
            /\ pendingRequests' = MapDelete(pendingRequests, msg.id)
            /\ Did("handleMessage", msg, msg.id, "", "resolved")
       ELSE /\ Did("handleMessage", msg, msg.id, "", "dropped")
            /\ UNCHANGED <<initialized, pendingRequests, promiseVars>>
    /\ UNCHANGED <<worker, streamingRequests, workerTerminations, streamVars, outbox,
                   issued>>

\* msg.type === 'result'
HandleResult(msg) ==
    /\ msg.type = "result"
    /\ IF MapHas(pendingRequests, msg.id)
       THEN /\ PendingResolve(msg.id, msg.value)
            /\ settles' = [settles EXCEPT ![msg.id] = @ + 1]
            /\ pendingRequests' = MapDelete(pendingRequests, msg.id)
            /\ Did("handleMessage", msg, msg.id, "", "resolved")
       ELSE /\ Did("handleMessage", msg, msg.id, "", "dropped")
            /\ UNCHANGED <<initialized, pendingRequests, promiseVars>>
    /\ UNCHANGED <<worker, streamingRequests, workerTerminations, streamVars, outbox,
                   issued>>

\* Mutant of HandleError: the streaming entry is deleted and its consumer is
\* not told.
HandleError_DropsStream(msg) ==
    /\ msg.type = "error"
    /\ LET error == createError(msg.error.code, msg.error.message, msg.error.details)
           pending == MapHas(pendingRequests, msg.id)
           streaming == msg.id \in streamingRequests
       IN  /\ IF pending
              THEN /\ PendingReject(msg.id, error)
                   /\ pendingRequests' = MapDelete(pendingRequests, msg.id)
              ELSE UNCHANGED <<pendingRequests, promise, loadPromise>>
           /\ streamingRequests' = streamingRequests \ {msg.id}
           /\ UNCHANGED <<request, consumer>>
           /\ settles' = IF pending \/ streaming
                         THEN [settles EXCEPT ![msg.id] = @ + 1] ELSE settles
           /\ IF pending \/ streaming
              THEN Did("handleMessage", msg, msg.id, "", "rejected")
              ELSE Did("handleMessage", msg, msg.id, "", "dropped")
    /\ UNCHANGED <<worker, initialized, workerTerminations, unstarted, outbox,
                   issued>>

\* msg.type === 'error'
HandleError(msg) ==
    /\ msg.type = "error"
    /\ LET error == createError(msg.error.code, msg.error.message, msg.error.details)
           pending == MapHas(pendingRequests, msg.id)
           streaming == msg.id \in streamingRequests
       IN  /\ IF pending
              THEN /\ PendingReject(msg.id, error)
                   /\ pendingRequests' = MapDelete(pendingRequests, msg.id)
              ELSE UNCHANGED <<pendingRequests, promise, loadPromise>>
           /\ IF streaming
              THEN /\ WaiterSettle(msg.id, request[msg.id], "thrown", error)
                   /\ streamingRequests' = streamingRequests \ {msg.id}
              ELSE UNCHANGED <<streamingRequests, request, consumer>>
           /\ settles' = IF pending \/ streaming
                         THEN [settles EXCEPT ![msg.id] = @ + 1] ELSE settles
           /\ IF pending \/ streaming
              THEN Did("handleMessage", msg, msg.id, "", "rejected")
              ELSE Did("handleMessage", msg, msg.id, "", "dropped")
    /\ UNCHANGED <<worker, initialized, workerTerminations, unstarted, outbox,
                   issued>>

\* Mutant of HandleStreamChunk: the value appended is left in the buffer.
HandleStreamChunk_KeepsValue(msg) ==
    /\ msg.type = "stream_chunk"
    /\ IF msg.id \in streamingRequests
       THEN LET pushed == [request[msg.id] EXCEPT !.queue = Append(@, msg.value)]
            IN  /\ WaiterSettle(msg.id, pushed, "woken", NoError)
                /\ Did("handleMessage", msg, msg.id, "", "chunk")
       ELSE /\ Did("handleMessage", msg, msg.id, "", "dropped")
            /\ UNCHANGED <<request, consumer>>
    /\ UNCHANGED <<ctrlVars, unstarted, promiseVars, outbox, issued>>

\* msg.type === 'stream_chunk'. request.resolve is never falsy, so the value
\* pushed is shifted out again and handed to resolve in the same step.
HandleStreamChunk(msg) ==
    /\ msg.type = "stream_chunk"
    /\ IF msg.id \in streamingRequests
       THEN LET pushed == [request[msg.id] EXCEPT !.queue = Append(@, msg.value)]
                shifted == [pushed EXCEPT !.queue = Tail(@)]
            IN  /\ WaiterSettle(msg.id, shifted, "woken", NoError)
                /\ Did("handleMessage", msg, msg.id, "", "chunk")
       ELSE /\ Did("handleMessage", msg, msg.id, "", "dropped")
            /\ UNCHANGED <<request, consumer>>
    /\ UNCHANGED <<ctrlVars, unstarted, promiseVars, outbox, issued>>

\* Mutant of HandleStreamClose: a close for an id without a streaming entry
\* discards the pending unary entry of that id.
HandleStreamClose_Unmatched(msg) ==
    /\ msg.type = "stream_close"
    /\ IF msg.id \in streamingRequests
       THEN /\ WaiterSettle(msg.id, [request[msg.id] EXCEPT !.done = TRUE], "woken",
                            NoError)
            /\ streamingRequests' = streamingRequests \ {msg.id}
            /\ settles' = [settles EXCEPT ![msg.id] = @ + 1]
            /\ pendingRequests' = pendingRequests
            /\ Did("handleMessage", msg, msg.id, "", "closed")
       ELSE /\ Did("handleMessage", msg, msg.id, "", "dropped")
            /\ pendingRequests' = MapClear
            /\ UNCHANGED <<streamingRequests, request, consumer, settles>>
    /\ UNCHANGED <<worker, initialized, workerTerminations, unstarted,
                   promise, loadPromise, outbox, issued>>

\* Mutant of HandleStreamClose: the entry's done flag is left as it was.
HandleStreamClose_KeepsOpen(msg) ==
    /\ msg.type = "stream_close"
    /\ IF msg.id \in streamingRequests
       THEN /\ WaiterSettle(msg.id, request[msg.id], "woken", NoError)
            /\ streamingRequests' = streamingRequests \ {msg.id}
            /\ settles' = [settles EXCEPT ![msg.id] = @ + 1]
            /\ Did("handleMessage", msg, msg.id, "", "closed")
       ELSE /\ Did("handleMessage", msg, msg.id, "", "dropped")
            /\ UNCHANGED <<streamingRequests, request, consumer, settles>>
    /\ UNCHANGED <<worker, initialized, pendingRequests, workerTerminations, unstarted,
                   promise, loadPromise, outbox, issued>>

\* msg.type === 'stream_close'
HandleStreamClose(msg) ==
    /\ msg.type = "stream_close"
    /\ IF msg.id \in streamingRequests
       THEN /\ WaiterSettle(msg.id, [request[msg.id] EXCEPT !.done = TRUE], "woken",
                            NoError)
            /\ streamingRequests' = streamingRequests \ {msg.id}
            /\ settles' = [settles EXCEPT ![msg.id] = @ + 1]
            /\ Did("handleMessage", msg, msg.id, "", "closed")
       ELSE /\ Did("handleMessage", msg, msg.id, "", "dropped")
            /\ UNCHANGED <<streamingRequests, request, consumer, settles>>
    /\ UNCHANGED <<worker, initialized, pendingRequests, workerTerminations, unstarted,
                   promise, loadPromise, outbox, issued>>

\* handleMessage(event), event.data = msg
handleMessage(msg) ==
    \/ HandleReady(msg)
    \/ HandleResult(msg)
    \/ HandleError(msg)
    \/ HandleStreamChunk(msg)
    \/ HandleStreamClose(msg)

\* ------------------------------------------------------- WasmWorker.call

\* Mutant of call: the initialized flag is not checked.
call_NoReadyGuard(fn, payload) ==
    IF worker = "null"
    THEN /\ Did("call", NoMsg, NoId, "Worker not initialized", "")
         /\ UNCHANGED <<ctrlVars, streamVars, promiseVars, outbox, issued>>
    ELSE \E id \in generateId :
         /\ issued' = issued \cup {id}
         /\ pendingRequests' = MapSet(pendingRequests, id, "call")
         /\ promise' = [promise EXCEPT ![id] = PendingPromise]
         /\ outbox' = Append(outbox, WorkerRequest("call", id, fn, payload))
         /\ Did("call", NoMsg, id, "", "")
         /\ UNCHANGED <<worker, initialized, streamingRequests, workerTerminations,
                        streamVars, loadPromise, settles>>

\* call(fn, payload, options)
call(fn, payload) ==
    IF worker = "null"
    THEN /\ Did("call", NoMsg, NoId, "Worker not initialized", "")
         /\ UNCHANGED <<ctrlVars, streamVars, promiseVars, outbox, issued>>
    ELSE IF ~initialized
    THEN /\ Did("call", NoMsg, NoId, "Worker not ready", "")
         /\ UNCHANGED <<ctrlVars, streamVars, promiseVars, outbox, issued>>
    ELSE \E id \in generateId :
         /\ issued' = issued \cup {id}
         /\ pendingRequests' = MapSet(pendingRequests, id, "call")
         /\ promise' = [promise EXCEPT ![id] = PendingPromise]
         /\ outbox' = Append(outbox, WorkerRequest("call", id, fn, payload))
         /\ Did("call", NoMsg, id, "", "")
         /\ UNCHANGED <<worker, initialized, streamingRequests, workerTerminations,
                        streamVars, loadPromise, settles>>

\* -------------------------------------------------- WasmWorker.terminate

\* Mutant of terminate: streamingRequests.clear() is left out.
terminate_KeepsStreams ==
    IF worker # "null"
    THEN /\ workerTerminations' = workerTerminations + 1
         /\ worker' = "null"
         /\ initialized' = FALSE
         /\ pendingRequests' = MapClear
         /\ streamingRequests' = streamingRequests
         /\ Did("terminate", NoMsg, NoId, "", "destroyed")
         /\ UNCHANGED <<streamVars, promiseVars, outbox, issued>>
    ELSE /\ Did("terminate", NoMsg, NoId, "", "noop")
         /\ UNCHANGED <<ctrlVars, streamVars, promiseVars, outbox, issued>>

\* Mutant of terminate: the `if (this.worker)` guard is left out.
terminate_Unguarded ==
    /\ workerTerminations' = workerTerminations + 1
    /\ worker' = "null"
    /\ initialized' = FALSE
    /\ pendingRequests' = MapClear
    /\ streamingRequests' = {}
    /\ Did("terminate", NoMsg, NoId, "", "destroyed")
    /\ UNCHANGED <<streamVars, promiseVars, outbox, issued>>

\* Mutant of terminate: the outstanding call promises are rejected before the
\* registries are cleared.
terminate_RejectsOutstanding ==
    IF worker # "null"
    THEN /\ workerTerminations' = workerTerminations + 1
         /\ worker' = "null"
         /\ initialized' = FALSE
         /\ promise' = [i \in Ids |->
               IF pendingRequests[i] = "call"
               THEN Reject(promise[i], [code |-> "", message |-> "Worker terminated",
                                        details |-> Undefined])
               ELSE promise[i]]
         /\ pendingRequests' = MapClear
         /\ streamingRequests' = {}
         /\ Did("terminate", NoMsg, NoId, "", "destroyed")
         /\ UNCHANGED <<streamVars, loadPromise, settles, outbox, issued>>
    ELSE /\ Did("terminate", NoMsg, NoId, "", "noop")
         /\ UNCHANGED <<ctrlVars, streamVars, promiseVars, outbox, issued>>

\* Mutant of terminate: the initialized flag is left as it was.
terminate_KeepsFlag ==
    IF worker # "null"
    THEN /\ workerTerminations' = workerTerminations + 1
         /\ worker' = "null"
         /\ initialized' = initialized
         /\ pendingRequests' = MapClear
         /\ streamingRequests' = {}
         /\ Did("terminate", NoMsg, NoId, "", "destroyed")
         /\ UNCHANGED <<streamVars, promiseVars, outbox, issued>>
    ELSE /\ Did("terminate", NoMsg, NoId, "", "noop")
         /\ UNCHANGED <<ctrlVars, streamVars, promiseVars, outbox, issued>>

\* terminate()
terminate ==
    IF worker # "null"
    THEN /\ workerTerminations' = workerTerminations + 1
         /\ worker' = "null"
         /\ initialized' = FALSE
         /\ pendingRequests' = MapClear
         /\ streamingRequests' = {}
         /\ Did("terminate", NoMsg, NoId, "", "destroyed")
         /\ UNCHANGED <<streamVars, promiseVars, outbox, issued>>
    ELSE /\ Did("terminate", NoMsg, NoId, "", "noop")
         /\ UNCHANGED <<ctrlVars, streamVars, promiseVars, outbox, issued>>

\* ----------------------------------------------------- WasmWorker.stream

\* Mutant of streamCreate: stream_open is posted when the generator is created.
streamCreate_Eager ==
    /\ unstarted < MaxStreams
    /\ unstarted' = unstarted + 1
    /\ outbox' = Append(outbox, WorkerRequest("stream_open", NoId, "add", Undefined))
    /\ Did("stream", NoMsg, NoId, "", "")
    /\ UNCHANGED <<ctrlVars, request, consumer, promiseVars, issued>>

\* stream(fn, payload): calling the async generator function creates the
\* generator and runs none of its body.
streamCreate ==
    /\ unstarted < MaxStreams
    /\ unstarted' = unstarted + 1
    /\ Did("stream", NoMsg, NoId, "", "")
    /\ UNCHANGED <<ctrlVars, request, consumer, promiseVars, outbox, issued>>

\* The body of stream() from its start to its first suspension, run by the
\* consumer's first next(): the two guards, then generateId, the registration,
\* postMessage and the first pass of the loop, which awaits a new promise
\* because the queue of a new request is empty and done is false.
streamStart(fn, payload) ==
    /\ unstarted > 0
    /\ unstarted' = unstarted - 1
    /\ IF worker = "null"
       THEN /\ Did("streamStart", NoMsg, NoId, "Worker not initialized", "")
            /\ UNCHANGED <<request, consumer, streamingRequests, outbox, issued>>
       ELSE IF ~initialized
       THEN /\ Did("streamStart", NoMsg, NoId, "Worker not ready", "")
            /\ UNCHANGED <<request, consumer, streamingRequests, outbox, issued>>
       ELSE \E id \in generateId :
            /\ issued' = issued \cup {id}
            /\ streamingRequests' = streamingRequests \cup {id}
            /\ outbox' = Append(outbox, WorkerRequest("stream_open", id, fn, payload))
            /\ request' = [request EXCEPT ![id] = [NewRequest EXCEPT !.waiter = "live"]]
            /\ consumer' = [consumer EXCEPT ![id] = [NoConsumer EXCEPT !.pc = "awaiting"]]
            /\ Did("streamStart", NoMsg, id, "", "")
    /\ UNCHANGED <<worker, initialized, pendingRequests, workerTerminations,
                   promiseVars>>

\* The body of stream() from a resumption to its next suspension or its end:
\* after the awaited promise was resolved ("woken") or rejected ("thrown"), or
\* after a yield when the consumer asks for the next value ("yielded").
streamResume(id) ==
    /\ consumer[id].pc \in {"woken", "thrown", "yielded"}
    /\ LET req == request[id] IN
       IF consumer[id].pc = "thrown"
       THEN \* the await throws: finally, then the error reaches the consumer
            /\ streamingRequests' = streamingRequests \ {id}
            /\ consumer' = [consumer EXCEPT ![id].pc = "failed"]
            /\ request' = request
            /\ Did("streamResume", NoMsg, id, "", "failed")
       ELSE IF ~req.done \/ Len(req.queue) > 0
       THEN IF Len(req.queue) > 0
            THEN \* the yield hands the value to the pending next(); a return()
                 \* waiting in the queue then resumes the body at the yield with
                 \* a return completion, which runs finally
                 /\ consumer' = [consumer EXCEPT
                       ![id] = [@ EXCEPT !.pc = IF consumer[id].returning THEN "ended"
                                                ELSE "yielded",
                                         !.yielded = Append(@, Head(req.queue))]]
                 /\ request' = [request EXCEPT ![id].queue = Tail(@)]
                 /\ streamingRequests' =
                       IF consumer[id].returning THEN streamingRequests \ {id}
                       ELSE streamingRequests
                 /\ Did("streamResume", NoMsg, id, "", "yielded")
            ELSE /\ consumer' = [consumer EXCEPT ![id].pc = "awaiting"]
                 /\ request' = [request EXCEPT ![id].waiter = "live"]
                 /\ streamingRequests' = streamingRequests
                 /\ Did("streamResume", NoMsg, id, "", "awaiting")
       ELSE \* the loop ends: finally, then the generator returns
            /\ streamingRequests' = streamingRequests \ {id}
            /\ consumer' = [consumer EXCEPT ![id].pc = "ended"]
            /\ request' = request
            /\ Did("streamResume", NoMsg, id, "", "ended")
    /\ UNCHANGED <<worker, initialized, pendingRequests, workerTerminations, unstarted,
                   promiseVars, outbox, issued>>

\* iterator.return() on a started generator, called by the consumer from a
\* task. At the yield the body resumes with a return completion: finally runs
\* and the generator ends. At the await the body is running, so the request
\* waits in the generator's queue until the pending next() completes, and no
\* code of stream() runs.
streamReturn(id) ==
    /\ consumer[id].pc \in {"awaiting", "yielded"}
    /\ ~consumer[id].returning
    /\ IF consumer[id].pc = "yielded"
       THEN /\ streamingRequests' = streamingRequests \ {id}
            /\ consumer' = [consumer EXCEPT ![id].pc = "ended"]
            /\ Did("streamReturn", NoMsg, id, "", "returned")
       ELSE /\ streamingRequests' = streamingRequests
            /\ consumer' = [consumer EXCEPT ![id].returning = TRUE]
            /\ Did("streamReturn", NoMsg, id, "", "queued")
    /\ UNCHANGED <<worker, initialized, pendingRequests, workerTerminations, request,
                   unstarted, promiseVars, outbox, issued>>

\* iterator.return() on a generator whose body has not started: the generator
\* completes and its body never runs.
streamReturnUnstarted ==
    /\ unstarted > 0
    /\ unstarted' = unstarted - 1
    /\ Did("streamReturn", NoMsg, NoId, "", "unstarted")
    /\ UNCHANGED <<ctrlVars, request, consumer, promiseVars, outbox, issued>>

\* ------------------------------------------------- worker/runtime.ts: data

\* A property key of a payload object: an array index ("0", "1", ...) or any
\* other string.
NameKey(name) == [isIndex |-> FALSE, index |-> 0, name |-> name]
IndexKey(n) == [isIndex |-> TRUE, index |-> n, name |-> ""]
Entry(key, val) == [key |-> key, val |-> val]

\* msg.payload as handleCall tells payloads apart: left out, null, an object
\* that is not an array (its own properties in the order they were created),
\* an array (its elements), or a primitive value.
PUndefined == [kind |-> "undefined", entries |-> <<>>]
PNull == [kind |-> "null", entries |-> <<>>]
PObject(entries) == [kind |-> "object", entries |-> entries]
PArray(elements) ==
    [kind |-> "array",
     entries |-> [k \in 1..Len(elements) |-> Entry(IndexKey(k - 1), elements[k])]]
PScalar(v) == [kind |-> "scalar", entries |-> <<Entry(NameKey(""), v)>>]

\* The values of the entries, in the order of the sequence.
Vals(entries) == [k \in 1..Len(entries) |-> entries[k].val]

\* The entries with array-index keys, by ascending index.
RECURSIVE IndexEntries(_)
IndexEntries(entries) ==
    LET idx == {k \in 1..Len(entries) : entries[k].key.isIndex}
    IN  IF idx = {} THEN <<>>
        ELSE LET least == CHOOSE k \in idx :
                              \A j \in idx : entries[k].key.index <= entries[j].key.index
             IN  <<entries[least]>>
                 \o IndexEntries([k \in 1..(Len(entries) - 1) |->
                                     IF k < least THEN entries[k] ELSE entries[k + 1]])

\* The entries whose keys are not array indices, in creation order.
NameEntries(entries) ==
    LET RECURSIVE Keep(_)
        Keep(k) == IF k > Len(entries) THEN <<>>
                   ELSE IF entries[k].key.isIndex THEN Keep(k + 1)
                   ELSE <<entries[k]>> \o Keep(k + 1)
    IN  Keep(1)

\* Object.values(payload): the own enumerable properties in property order,
\* array-index keys first in ascending order, then the other keys in the
\* order they were created.
ObjectValues(payload) == Vals(IndexEntries(payload.entries) \o NameEntries(payload.entries))

\* The payloads callers pass to call() in the composed system.
SystemPayloads ==
    {PUndefined, PNull,
     PObject(<<Entry(NameKey("a"), 2), Entry(NameKey("b"), 1)>>),
     PObject(<<Entry(NameKey("b"), 1), Entry(IndexKey(0), 2)>>),
     PArray(<<2, 1>>),
     PScalar(2)}

\* state.instance.exports of the loaded module: its exports in order.
Exports ==
    <<[name |-> "memory", kind |-> "memory"],
      [name |-> "add", kind |-> "function"],
      [name |-> "trap", kind |-> "function"]>>

\* state.instance.exports[name]: the kind of the export, "undefined" if none.
ExportKind(name) ==
    IF \E k \in 1..Len(Exports) : Exports[k].name = name
    THEN (CHOOSE e \in {Exports[k] : k \in 1..Len(Exports)} : e.name = name).kind
    ELSE "undefined"

\* Object.keys(exports).filter(k => typeof exports[k] === 'function')
AvailableFunctions ==
    LET RECURSIVE Keep(_)
        Keep(k) == IF k > Len(Exports) THEN <<>>
                   ELSE IF Exports[k].kind = "function" THEN <<Exports[k].name>> \o Keep(k + 1)
                   ELSE Keep(k + 1)
    IN  Keep(1)

\* An exported function applied to JavaScript arguments: a parameter without
\* an argument receives undefined, which converts to 0, and arguments beyond
\* the parameters are ignored. add(a, b) returns a + b; trap() always traps.
Invoke(fn, args) ==
    LET Arg(k) == IF k <= Len(args) THEN args[k] ELSE 0
    IN  IF fn = "add"
        THEN [threw |-> FALSE, value |-> Arg(1) + Arg(2), message |-> ""]
        ELSE [threw |-> TRUE, value |-> Undefined, message |-> "unreachable"]

\* The (fn, payload) pairs callers pass to call() in the composed system.
SystemCallArgs ==
    {<<"add", p>> : p \in SystemPayloads}
    \cup {<<"missingFn", PObject(<<>>)>>, <<"memory", PUndefined>>, <<"trap", PUndefined>>}

\* --------------------------------------------- worker/runtime.ts: handlers

\* Mutant of sendResult: the result message is posted twice.
sendResult_Twice(id, value) ==
    inbound' = inbound \o <<ResultMsg(id, value), ResultMsg(id, value)>>

\* sendResult(id, value)
sendResult(id, value) == inbound' = Append(inbound, ResultMsg(id, value))

\* Mutant of sendError: the code passed is replaced by UNKNOWN_ERROR.
sendError_Unclassified(id, code, message, details) ==
    inbound' = Append(inbound,
                      ErrorMsg(id, [code |-> "UNKNOWN_ERROR", message |-> message,
                                    details |-> details]))

\* sendError(id, code, message, details)
sendError(id, code, message, details) ==
    inbound' = Append(inbound,
                      ErrorMsg(id, [code |-> code, message |-> message, details |-> details]))

\* What the platform does in handleInit: the response is OK and the module
\* compiles and instantiates; the response is not OK; fetch() rejects (the
\* locator cannot be reached); compiling throws; instantiating throws.
InitOutcomes == {"ok", "notOk", "fetchThrows", "compileThrows", "instantiateThrows"}

\* Mutant of handleInit: the handler also starts again the initialization of
\* the init messages that were answered with an error.
handleInit_Retries(msg) ==
    /\ msg.type = "init"
    /\ initInProgress' =
          initInProgress \cup {msg.id}
          \cup {inbound[k].id : k \in {j \in 1..Len(inbound) : inbound[j].type = "error"}}
    /\ Did("handleInit", NoMsg, msg.id, "", "fetching")
    /\ UNCHANGED <<state, inbound, called>>

\* handleInit(msg) from its start to `await fetch(msg.moduleUrl)`.
handleInit(msg) ==
    /\ msg.type = "init"
    /\ initInProgress' = initInProgress \cup {msg.id}
    /\ Did("handleInit", NoMsg, msg.id, "", "fetching")
    /\ UNCHANGED <<state, inbound, called>>

\* Mutant of handleInitResume: state.initialized is set before the module is
\* fetched, compiled and instantiated, and stays set when one of them throws.
handleInitResume_FlagFirst(id, outcome) ==
    /\ id \in initInProgress
    /\ initInProgress' = initInProgress \ {id}
    /\ CASE outcome = "ok" ->
              /\ state' = [instance |-> id, memory |-> id, initialized |-> TRUE]
              /\ sendResult(id, [initialized |-> TRUE])
              /\ Did("handleInit", ResultMsg(id, [initialized |-> TRUE]), id, "", outcome)
         [] outcome = "notOk" ->
              LET error == [code |-> "MODULE_FETCH_FAILED",
                            message |-> "Failed to fetch module",
                            details |-> [status |-> "notOk", url |-> "moduleUrl"]]
              IN  /\ state' = state
                  /\ sendError(id, error.code, error.message, error.details)
                  /\ Did("handleInit", ErrorMsg(id, error), id, "", outcome)
         [] OTHER ->
              LET error == [code |-> "WASM_INIT_FAILED",
                            message |-> "Failed to initialize WASM module",
                            details |-> [error |-> outcome]]
              IN  /\ state' = [state EXCEPT !.initialized = TRUE]
                  /\ sendError(id, error.code, error.message, error.details)
                  /\ Did("handleInit", ErrorMsg(id, error), id, "", outcome)
    /\ called' = called

\* Mutant of handleInitResume: the catch-all clears the Runtime's state.
handleInitResume_ResetsOnFailure(id, outcome) ==
    /\ id \in initInProgress
    /\ initInProgress' = initInProgress \ {id}
    /\ CASE outcome = "ok" ->
              /\ state' = [instance |-> id, memory |-> id, initialized |-> TRUE]
              /\ sendResult(id, [initialized |-> TRUE])
              /\ Did("handleInit", ResultMsg(id, [initialized |-> TRUE]), id, "", outcome)
         [] outcome = "notOk" ->
              LET error == [code |-> "MODULE_FETCH_FAILED",
                            message |-> "Failed to fetch module",
                            details |-> [status |-> "notOk", url |-> "moduleUrl"]]
              IN  /\ state' = state
                  /\ sendError(id, error.code, error.message, error.details)
                  /\ Did("handleInit", ErrorMsg(id, error), id, "", outcome)
         [] OTHER ->
              LET error == [code |-> "WASM_INIT_FAILED",
                            message |-> "Failed to initialize WASM module",
                            details |-> [error |-> outcome]]
              IN  /\ state' = NoState
                  /\ sendError(id, error.code, error.message, error.details)
                  /\ Did("handleInit", ErrorMsg(id, error), id, "", outcome)
    /\ called' = called

\* handleInit from the settlement of fetch() to its end. Nothing of the
\* Runtime runs between its awaits but the handling of other messages, which
\* reads state.initialized and state.instance, written here after the last.
handleInitResume(id, outcome) ==
    /\ id \in initInProgress
    /\ initInProgress' = initInProgress \ {id}
    /\ CASE outcome = "ok" ->
              /\ state' = [instance |-> id, memory |-> id, initialized |-> TRUE]
              /\ sendResult(id, [initialized |-> TRUE])
              /\ Did("handleInit", ResultMsg(id, [initialized |-> TRUE]), id, "", outcome)
         [] outcome = "notOk" ->
              LET error == [code |-> "MODULE_FETCH_FAILED",
                            message |-> "Failed to fetch module",
                            details |-> [status |-> "notOk", url |-> "moduleUrl"]]
              IN  /\ state' = state
                  /\ sendError(id, error.code, error.message, error.details)
                  /\ Did("handleInit", ErrorMsg(id, error), id, "", outcome)
         [] OTHER ->
              LET error == [code |-> "WASM_INIT_FAILED",
                            message |-> "Failed to initialize WASM module",
                            details |-> [error |-> outcome]]
              IN  /\ state' = state
                  /\ sendError(id, error.code, error.message, error.details)
                  /\ Did("handleInit", ErrorMsg(id, error), id, "", outcome)
    /\ called' = called

\* The arguments handleCall passes for a payload.
CallArguments(payload) ==
    CASE payload.kind \in {"null", "undefined"} -> <<>>
      [] payload.kind = "object" -> ObjectValues(payload)
      [] payload.kind = "array" -> Vals(payload.entries)
      [] OTHER -> <<payload.entries[1].val>>

\* Mutant of handleCall: availableFunctions lists every export, callable or not.
handleCall_ListsAllExports(msg) ==
    /\ msg.type = "call"
    /\ IF ~state.initialized \/ state.instance = Null
       THEN LET error == [code |-> "NOT_INITIALIZED",
                          message |-> "Worker not initialized with WASM module",
                          details |-> Undefined]
            IN  /\ sendError(msg.id, error.code, error.message, error.details)
                /\ called' = NoCall
                /\ Did("handleCall", ErrorMsg(msg.id, error), msg.id, "", "notInitialized")
       ELSE IF ExportKind(msg.fn) # "function"
       THEN LET error == [code |-> "FN_NOT_FOUND",
                          message |-> "Function not found in WASM module",
                          details |-> [availableFunctions |->
                                         [k \in 1..Len(Exports) |-> Exports[k].name]]]
            IN  /\ sendError(msg.id, error.code, error.message, error.details)
                /\ called' = NoCall
                /\ Did("handleCall", ErrorMsg(msg.id, error), msg.id, "", "notFound")
       ELSE LET args == CallArguments(msg.payload)
                result == Invoke(msg.fn, args)
                error == [code |-> "WASM_TRAP", message |-> "WASM execution error",
                          details |-> [function |-> msg.fn, error |-> result.message]]
            IN  /\ called' = [fn |-> msg.fn, args |-> args]
                /\ IF result.threw
                   THEN /\ sendError(msg.id, error.code, error.message, error.details)
                        /\ Did("handleCall", ErrorMsg(msg.id, error), msg.id, "", "trapped")
                   ELSE /\ sendResult(msg.id, result.value)
                        /\ Did("handleCall", ResultMsg(msg.id, result.value), msg.id, "",
                               "returned")
    /\ UNCHANGED <<state, initInProgress>>

\* Mutant of handleCall: the branch for a primitive payload is missing, and
\* the function is invoked without arguments.
handleCall_DropsScalar(msg) ==
    /\ msg.type = "call"
    /\ IF ~state.initialized \/ state.instance = Null
       THEN LET error == [code |-> "NOT_INITIALIZED",
                          message |-> "Worker not initialized with WASM module",
                          details |-> Undefined]
            IN  /\ sendError(msg.id, error.code, error.message, error.details)
                /\ called' = NoCall
                /\ Did("handleCall", ErrorMsg(msg.id, error), msg.id, "", "notInitialized")
       ELSE IF ExportKind(msg.fn) # "function"
       THEN LET error == [code |-> "FN_NOT_FOUND",
                          message |-> "Function not found in WASM module",
                          details |-> [availableFunctions |-> AvailableFunctions]]
            IN  /\ sendError(msg.id, error.code, error.message, error.details)
                /\ called' = NoCall
                /\ Did("handleCall", ErrorMsg(msg.id, error), msg.id, "", "notFound")
       ELSE LET args == IF msg.payload.kind = "scalar" THEN <<>>
                        ELSE CallArguments(msg.payload)
                result == Invoke(msg.fn, args)
                error == [code |-> "WASM_TRAP", message |-> "WASM execution error",
                          details |-> [function |-> msg.fn, error |-> result.message]]
            IN  /\ called' = [fn |-> msg.fn, args |-> args]
                /\ IF result.threw
                   THEN /\ sendError(msg.id, error.code, error.message, error.details)
                        /\ Did("handleCall", ErrorMsg(msg.id, error), msg.id, "", "trapped")
                   ELSE /\ sendResult(msg.id, result.value)
                        /\ Did("handleCall", ResultMsg(msg.id, result.value), msg.id, "",
                               "returned")
    /\ UNCHANGED <<state, initInProgress>>

\* Mutant of handleCall: the guard on state.initialized is missing, so the
\* lookup on the null instance throws inside the try block.
handleCall_Unguarded(msg) ==
    /\ msg.type = "call"
    /\ IF ~state.initialized \/ state.instance = Null
       THEN LET error == [code |-> "WASM_TRAP", message |-> "WASM execution error",
                          details |-> [function |-> msg.fn, error |-> "TypeError"]]
            IN  /\ sendError(msg.id, error.code, error.message, error.details)
                /\ called' = NoCall
                /\ Did("handleCall", ErrorMsg(msg.id, error), msg.id, "", "trapped")
       ELSE IF ExportKind(msg.fn) # "function"
       THEN LET error == [code |-> "FN_NOT_FOUND",
                          message |-> "Function not found in WASM module",
                          details |-> [availableFunctions |-> AvailableFunctions]]
            IN  /\ sendError(msg.id, error.code, error.message, error.details)
                /\ called' = NoCall
                /\ Did("handleCall", ErrorMsg(msg.id, error), msg.id, "", "notFound")
       ELSE LET args == CallArguments(msg.payload)
                result == Invoke(msg.fn, args)
                error == [code |-> "WASM_TRAP", message |-> "WASM execution error",
                          details |-> [function |-> msg.fn, error |-> result.message]]
            IN  /\ called' = [fn |-> msg.fn, args |-> args]
                /\ IF result.threw
                   THEN /\ sendError(msg.id, error.code, error.message, error.details)
                        /\ Did("handleCall", ErrorMsg(msg.id, error), msg.id, "", "trapped")
                   ELSE /\ sendResult(msg.id, result.value)
                        /\ Did("handleCall", ResultMsg(msg.id, result.value), msg.id, "",
                               "returned")
    /\ UNCHANGED <<state, initInProgress>>

\* Mutant of handleCall: a trap discards the instance.
handleCall_TrapIsFatal(msg) ==
    /\ msg.type = "call"
    /\ IF ~state.initialized \/ state.instance = Null
       THEN LET error == [code |-> "NOT_INITIALIZED",
                          message |-> "Worker not initialized with WASM module",
                          details |-> Undefined]
            IN  /\ sendError(msg.id, error.code, error.message, error.details)
                /\ called' = NoCall
                /\ Did("handleCall", ErrorMsg(msg.id, error), msg.id, "", "notInitialized")
       ELSE IF ExportKind(msg.fn) # "function"
       THEN LET error == [code |-> "FN_NOT_FOUND",
                          message |-> "Function not found in WASM module",
                          details |-> [availableFunctions |-> AvailableFunctions]]
            IN  /\ sendError(msg.id, error.code, error.message, error.details)
                /\ called' = NoCall
                /\ Did("handleCall", ErrorMsg(msg.id, error), msg.id, "", "notFound")
       ELSE LET args == CallArguments(msg.payload)
                result == Invoke(msg.fn, args)
                error == [code |-> "WASM_TRAP", message |-> "WASM execution error",
                          details |-> [function |-> msg.fn, error |-> result.message]]
            IN  /\ called' = [fn |-> msg.fn, args |-> args]
                /\ IF result.threw
                   THEN /\ sendError(msg.id, error.code, error.message, error.details)
                        /\ Did("handleCall", ErrorMsg(msg.id, error), msg.id, "", "trapped")
                   ELSE /\ sendResult(msg.id, result.value)
                        /\ Did("handleCall", ResultMsg(msg.id, result.value), msg.id, "",
                               "returned")
    /\ state' = IF last'.branch = "trapped" THEN NoState ELSE state
    /\ initInProgress' = initInProgress

\* Mutant of handleCall: a call that finds the Runtime not initialized
\* abandons the initializations in progress.
handleCall_CancelsInit(msg) ==
    /\ msg.type = "call"
    /\ IF ~state.initialized \/ state.instance = Null
       THEN LET error == [code |-> "NOT_INITIALIZED",
                          message |-> "Worker not initialized with WASM module",
                          details |-> Undefined]
            IN  /\ sendError(msg.id, error.code, error.message, error.details)
                /\ called' = NoCall
                /\ Did("handleCall", ErrorMsg(msg.id, error), msg.id, "", "notInitialized")
       ELSE IF ExportKind(msg.fn) # "function"
       THEN LET error == [code |-> "FN_NOT_FOUND",
                          message |-> "Function not found in WASM module",
                          details |-> [availableFunctions |-> AvailableFunctions]]
            IN  /\ sendError(msg.id, error.code, error.message, error.details)
                /\ called' = NoCall
                /\ Did("handleCall", ErrorMsg(msg.id, error), msg.id, "", "notFound")
       ELSE LET args == CallArguments(msg.payload)
                result == Invoke(msg.fn, args)
                error == [code |-> "WASM_TRAP", message |-> "WASM execution error",
                          details |-> [function |-> msg.fn, error |-> result.message]]
            IN  /\ called' = [fn |-> msg.fn, args |-> args]
                /\ IF result.threw
                   THEN /\ sendError(msg.id, error.code, error.message, error.details)
                        /\ Did("handleCall", ErrorMsg(msg.id, error), msg.id, "", "trapped")
                   ELSE /\ sendResult(msg.id, result.value)
                        /\ Did("handleCall", ResultMsg(msg.id, result.value), msg.id, "",
                               "returned")
    /\ state' = state
    /\ initInProgress' = IF last'.branch = "notInitialized" THEN {} ELSE initInProgress

\* handleCall(msg)
handleCall(msg) ==
    /\ msg.type = "call"
    /\ IF ~state.initialized \/ state.instance = Null
       THEN LET error == [code |-> "NOT_INITIALIZED",
                          message |-> "Worker not initialized with WASM module",
                          details |-> Undefined]
            IN  /\ sendError(msg.id, error.code, error.message, error.details)
                /\ called' = NoCall
                /\ Did("handleCall", ErrorMsg(msg.id, error), msg.id, "", "notInitialized")
       ELSE IF ExportKind(msg.fn) # "function"
       THEN LET error == [code |-> "FN_NOT_FOUND",
                          message |-> "Function not found in WASM module",
                          details |-> [availableFunctions |-> AvailableFunctions]]
            IN  /\ sendError(msg.id, error.code, error.message, error.details)
                /\ called' = NoCall
                /\ Did("handleCall", ErrorMsg(msg.id, error), msg.id, "", "notFound")
       ELSE LET args == CallArguments(msg.payload)
                result == Invoke(msg.fn, args)
                error == [code |-> "WASM_TRAP", message |-> "WASM execution error",
                          details |-> [function |-> msg.fn, error |-> result.message]]
            IN  /\ called' = [fn |-> msg.fn, args |-> args]
                /\ IF result.threw
                   THEN /\ sendError(msg.id, error.code, error.message, error.details)
                        /\ Did("handleCall", ErrorMsg(msg.id, error), msg.id, "", "trapped")
                   ELSE /\ sendResult(msg.id, result.value)
                        /\ Did("handleCall", ResultMsg(msg.id, result.value), msg.id, "",
                               "returned")
    /\ UNCHANGED <<state, initInProgress>>

\* Mutant of handleStreamOpen: the stub returns without answering.
handleStreamOpen_NoReply(msg) ==
    /\ msg.type = "stream_open"
    /\ Did("handleStreamOpen", NoMsg, msg.id, "", "stub")
    /\ UNCHANGED <<state, initInProgress, called, inbound>>

\* handleStreamOpen(msg)
handleStreamOpen(msg) ==
    /\ msg.type = "stream_open"
    /\ LET error == [code |-> "UNKNOWN_ERROR", message |-> "Streaming not yet implemented",
                     details |-> Undefined]
       IN  /\ sendError(msg.id, error.code, error.message, error.details)
           /\ Did("handleStreamOpen", ErrorMsg(msg.id, error), msg.id, "", "stub")
    /\ UNCHANGED <<state, initInProgress, called>>

\* self.addEventListener('message', ...): the switch on msg.type
listener(msg) ==
    \/ handleInit(msg)
    \/ handleCall(msg)
    \/ handleStreamOpen(msg)

\* Mutant of startup: ready is posted twice.
startup_ReadyTwice ==
    /\ runtime = "none"
    /\ runtime' = "running"
    /\ inbound' = inbound \o <<ReadyMsg, ReadyMsg>>
    /\ Did("startup", ReadyMsg, NoId, "", "ready")
    /\ UNCHANGED <<state, initInProgress, called>>

\* The module body of runtime.ts, run once when the worker script is loaded:
\* the listener is installed, then postMessage({ type: 'ready' }).
startup ==
    /\ runtime = "none"
    /\ runtime' = "running"
    /\ inbound' = Append(inbound, ReadyMsg)
    /\ Did("startup", ReadyMsg, NoId, "", "ready")
    /\ UNCHANGED <<state, initInProgress, called>>

\* ----------------------------------------------------------- specification

\* The Controller alone: the Runtime's side of the channel is the environment,
\* which may deliver any WorkerResponse at any time.
Load ==
    /\ \E outcome \in {"ok", "createThrows", "postThrows"} : init(outcome)
    /\ UNCHANGED <<received, rtVars>>
WorkerError == workerErrorEvent /\ UNCHANGED <<received, rtVars>>
Message ==
    /\ MicrotasksDone
    /\ \E msg \in WorkerResponse : handleMessage(msg)
    /\ UNCHANGED <<received, rtVars>>
Call == (\E args \in CallArgs : call(args[1], args[2])) /\ UNCHANGED <<received, rtVars>>
Terminate == terminate /\ UNCHANGED <<received, rtVars>>
Stream == streamCreate /\ UNCHANGED <<received, rtVars>>
StreamNext ==
    /\ \E args \in CallArgs : streamStart(args[1], args[2])
    /\ UNCHANGED <<received, rtVars>>
StreamContinue == (\E id \in Ids : streamResume(id)) /\ UNCHANGED <<received, rtVars>>

Next ==
    \/ Load
    \/ WorkerError
    \/ Message
    \/ Call
    \/ Terminate
    \/ Stream
    \/ StreamNext
    \/ StreamContinue

Spec == Init /\ [][Next]_vars

\* The Controller and its stream consumers: the environment of Spec, with the
\* chunks handled for each open stream recorded in `received` (at most
\* MaxChunks of them), and consumers that may stop iterating.
StreamMessage ==
    /\ MicrotasksDone
    /\ \E msg \in WorkerResponse :
         LET chunk == msg.type = "stream_chunk" /\ msg.id \in streamingRequests
         IN  /\ chunk => Len(received[msg.id]) < MaxChunks
             /\ handleMessage(msg)
             /\ received' = IF chunk
                            THEN [received EXCEPT ![msg.id] = Append(@, msg.value)]
                            ELSE received
    /\ UNCHANGED rtVars
StreamReturn ==
    /\ (\E id \in Ids : streamReturn(id)) \/ streamReturnUnstarted
    /\ UNCHANGED <<received, rtVars>>

\* The continuation of a generator whose awaited promise was settled: a
\* promise reaction job, which the platform runs when the current task ends.
Microtask ==
    /\ \E id \in Ids : consumer[id].pc \in {"woken", "thrown"} /\ streamResume(id)
    /\ UNCHANGED <<received, rtVars>>

StreamNextStep ==
    \/ Load
    \/ WorkerError
    \/ StreamMessage
    \/ Call
    \/ Terminate
    \/ Stream
    \/ StreamNext
    \/ StreamContinue
    \/ StreamReturn

StreamSpec == Init /\ [][StreamNextStep]_vars /\ WF_vars(Microtask)

\* Spec with the scheduling of promise reactions stated.
FairSpec == Spec /\ WF_vars(Microtask)

\* ------------------------------------------------- the composed system

\* Everything of the Controller but the history variables.
controllerVars == <<ctrlVars, streamVars, promiseVars, outbox, issued>>

\* The worker script runs: the listener is installed and ready is posted.
RuntimeStart ==
    /\ worker = "live"
    /\ startup
    /\ UNCHANGED <<controllerVars, received, taken>>

\* The worker script cannot be loaded or run: the worker's 'error' event.
RuntimeFails ==
    /\ runtime = "none"
    /\ workerErrorEvent
    /\ runtime' = "failed"
    /\ UNCHANGED <<received, state, initInProgress, taken, inbound, called>>

\* The Runtime's listener takes the next message the Controller has posted.
RuntimeMessage ==
    /\ runtime = "running"
    /\ taken < Len(outbox)
    /\ listener(outbox[taken + 1])
    /\ taken' = taken + 1
    /\ UNCHANGED <<controllerVars, received, runtime>>

\* A suspended handleInit goes on.
RuntimeInitDone ==
    /\ runtime = "running"
    /\ \E id \in initInProgress : \E outcome \in InitOutcomes : handleInitResume(id, outcome)
    /\ UNCHANGED <<controllerVars, received, runtime, taken>>

\* Mutant of Deliver: the channel hands over the newest message first.
Deliver_NewestFirst ==
    /\ worker = "live"
    /\ MicrotasksDone
    /\ inbound # <<>>
    /\ handleMessage(inbound[Len(inbound)])
    /\ inbound' = SubSeq(inbound, 1, Len(inbound) - 1)
    /\ UNCHANGED <<received, runtime, state, initInProgress, taken, called>>

\* The Controller's listener is handed the next message the Runtime posted.
Deliver ==
    /\ worker = "live"
    /\ MicrotasksDone
    /\ inbound # <<>>
    /\ handleMessage(Head(inbound))
    /\ inbound' = Tail(inbound)
    /\ UNCHANGED <<received, runtime, state, initInProgress, taken, called>>

SystemCall ==
    /\ \E args \in SystemCallArgs : call(args[1], args[2])
    /\ UNCHANGED <<received, rtVars>>

\* terminate(): Worker.terminate() ends the Runtime and discards the messages
\* it has posted.
SystemTerminate ==
    /\ terminate
    /\ IF worker # "null"
       THEN runtime' = "terminated" /\ inbound' = <<>> /\ initInProgress' = {}
       ELSE UNCHANGED <<runtime, inbound, initInProgress>>
    /\ UNCHANGED <<received, state, taken, called>>

RuntimeStep == RuntimeStart \/ RuntimeMessage \/ RuntimeInitDone

SystemNext ==
    \/ Load
    \/ SystemCall
    \/ SystemTerminate
    \/ Stream
    \/ StreamNext
    \/ StreamContinue
    \/ RuntimeStart
    \/ RuntimeFails
    \/ RuntimeMessage
    \/ RuntimeInitDone
    \/ Deliver

\* The Runtime runs while it has something to do, the channel delivers what
\* was posted, and promise reactions run.
SystemSpec ==
    /\ Init /\ [][SystemNext]_vars
    /\ WF_vars(RuntimeStep) /\ WF_vars(Deliver) /\ WF_vars(Microtask)

\* ------------------------------------------------- the Runtime alone

\* The (fn, payload) pairs of the call messages the Runtime is sent.
RuntimeCallArgs ==
    {<<"add", PArray(<<2, 1>>)>>, <<"trap", PUndefined>>, <<"missingFn", PObject(<<>>)>>}

\* The messages a client of the protocol may post with a given id.
RuntimeRequests(id) ==
    {WorkerRequest("init", id, "", Undefined), WorkerRequest("stream_open", id, "add", PUndefined)}
    \cup {WorkerRequest("call", id, args[1], args[2]) : args \in RuntimeCallArgs}

\* The worker script is loaded and run.
RuntimeBoot ==
    /\ startup
    /\ UNCHANGED <<controllerVars, received, taken>>

\* A client posts a message to the worker, under an id it has not used; the
\* message waits in the worker's queue until the listener takes it.
Receive ==
    /\ Len(outbox) < MaxIds
    /\ \E msg \in RuntimeRequests(Len(outbox) + 1) :
         /\ outbox' = Append(outbox, msg)
         /\ Did("receive", NoMsg, msg.id, "", msg.type)
    /\ UNCHANGED <<ctrlVars, streamVars, promiseVars, issued, received, rtVars>>

RuntimeRun == RuntimeBoot \/ RuntimeMessage \/ RuntimeInitDone

RuntimeNext ==
    \/ RuntimeBoot
    \/ Receive
    \/ RuntimeMessage
    \/ RuntimeInitDone

\* The Runtime (worker/runtime.ts) driven by an arbitrary client: `inbound`
\* holds every message the Runtime has posted. The worker script is run, the
\* listener is handed the messages posted to the worker, and the promises
\* handleInit awaits are settled.
RuntimeSpec == Init /\ [][RuntimeNext]_vars /\ WF_vars(RuntimeRun)

\* ------------------------------------------------------------------ claims

\* Where the message carrying id was posted in outbox (0: never posted).
SentAt(id) ==
    IF \E k \in 1..Len(outbox) : outbox[k].id = id
    THEN CHOOSE k \in 1..Len(outbox) : outbox[k].id = id
    ELSE 0

\* The step handles a message carrying id a.
HandlesId(a) == last'.op = "handleMessage" /\ last'.id = a

\* The messages of a type that carry an id.
ResponsesOf(type, id) ==
    CASE type = "result" -> {ResultMsg(id, v) : v \in Values \cup {Undefined}}
      [] type = "error" -> {ErrorMsg(id, e) : e \in EnvErrors}
      [] type = "stream_chunk" -> {StreamChunkMsg(id, v) : v \in Values}
      [] type = "stream_close" -> {StreamCloseMsg(id)}
      [] OTHER -> {ReadyMsg}

\* The messages this step is the handling of: none when the step is not one
\* of handleMessage; the message the step has recorded; or, for a dropped
\* message, every message of the recorded type and id.
Handled ==
    IF last'.op # "handleMessage" THEN {}
    ELSE IF last'.branch = "dropped" THEN ResponsesOf(last'.type, last'.id)
    ELSE {[type |-> last'.type, id |-> last'.id, value |-> last'.value,
           error |-> last'.error]}

\* What a call promise becomes when the response m settles it.
SettledBy(m) ==
    IF m.type = "result"
    THEN [state |-> "resolved", value |-> m.value, error |-> NoError]
    ELSE [state |-> "rejected", value |-> Undefined, error |-> m.error]

\* A result or error whose id has a pending call entry settles that call's
\* promise with the value or error the message carries.
SettlesById ==
    \A m \in Handled :
        (m.type \in {"result", "error"} /\ pendingRequests[m.id] = "call")
        => promise'[m.id] = SettledBy(m)

\* C1: a result or error settles the call whose id it carries, whatever the
\* order in which the calls were sent; a handled message that does not carry
\* A's id leaves A's pending entry and promise as they were, and A's promise
\* is changed by no step at all other than the handling of a message carrying
\* A's id.
C1_OrderIndependence ==
    [][/\ SettlesById
       /\ \A a \in Ids :
            (pendingRequests[a] = "call" /\ ~HandlesId(a))
            => /\ promise'[a] = promise[a]
               /\ last'.op = "handleMessage" => pendingRequests'[a] = "call"]_vars

\* Call A was sent before call B, B's response has been handled and has
\* settled B, and A is still outstanding.
C1_Witness ==
    \E a, b \in Ids :
        /\ 0 < SentAt(a) /\ SentAt(a) < SentAt(b)
        /\ pendingRequests[a] = "call" /\ promise[a].state = "pending"
        /\ last.op = "handleMessage" /\ last.id = b
        /\ promise[b].state \in {"resolved", "rejected"}

\* The registries, the flag and everything a settlement would change.
settlementVars ==
    <<pendingRequests, streamingRequests, initialized, promise, loadPromise, request,
      consumer, settles>>

\* The entry of id was resolved or rejected and removed.
Retired(id) ==
    /\ settles[id] > 0
    /\ pendingRequests[id] = Absent
    /\ id \notin streamingRequests

\* C2: the resolve / reject callbacks of a call and the terminal signal of a
\* stream consumer (close or error) are invoked at most once per id, and a
\* result or error carrying a retired id changes neither registry and settles
\* nothing.
C2_AtMostOnce ==
    [][/\ \A id \in Ids : settles'[id] <= 1
       /\ \A m \in Handled :
            (m.type \in {"result", "error"} /\ Retired(m.id))
            => UNCHANGED settlementVars]_vars

\* A second result or error for a retired id has been handled.
C2_Witness ==
    /\ last.op = "handleMessage"
    /\ last.type \in {"result", "error"}
    /\ last.branch = "dropped"
    /\ Retired(last.id)
    /\ promise[last.id].state \in {"resolved", "rejected"}

\* C4: a result for id X with a pending entry resolves that entry with the
\* carried value (a call's promise gets the value; the init entry sets
\* initialized and resolves the load promise) and removes X; every other
\* pending entry, every other promise and every streaming entry stay as they
\* were.
C4_ResultResolves ==
    [][\A m \in Handled :
        (m.type = "result" /\ MapHas(pendingRequests, m.id))
        => /\ pendingRequests' = [pendingRequests EXCEPT ![m.id] = Absent]
           /\ UNCHANGED <<streamingRequests, request, consumer>>
           /\ \A i \in Ids \ {m.id} : promise'[i] = promise[i]
           /\ pendingRequests[m.id] = "call"
              => /\ promise'[m.id] =
                       [state |-> "resolved", value |-> m.value, error |-> NoError]
                 /\ UNCHANGED <<initialized, loadPromise>>
           /\ pendingRequests[m.id] = "init"
              => /\ initialized'
                 /\ loadPromise.state = "pending" => loadPromise'.state = "resolved"
                 /\ promise'[m.id] = promise[m.id]]_vars

\* A result with a value has resolved a call while a stream is outstanding.
C4_Witness ==
    /\ last.op = "handleMessage" /\ last.type = "result" /\ last.branch = "resolved"
    /\ promise[last.id].state = "resolved"
    /\ promise[last.id].value \in Values
    /\ streamingRequests # {}

\* C5: an error for id X rejects the pending entry of X (the call's promise,
\* or the load promise while it is unsettled) and the streaming entry of X
\* (the promise its consumer awaits), whichever exist, and removes them; the
\* rejection value has the code, message and details of the message; the
\* entries, promises and consumers of other ids are unchanged.
C5_ErrorRejects ==
    [][\A m \in Handled :
        m.type = "error"
        => /\ MapHas(pendingRequests, m.id)
              => /\ pendingRequests' = [pendingRequests EXCEPT ![m.id] = Absent]
                 /\ pendingRequests[m.id] = "call"
                    => promise'[m.id] =
                          [state |-> "rejected", value |-> Undefined, error |-> m.error]
                 /\ (pendingRequests[m.id] = "init" /\ loadPromise.state = "pending")
                    => loadPromise' =
                          [state |-> "rejected", value |-> Undefined, error |-> m.error]
           /\ m.id \in streamingRequests
              => /\ streamingRequests' = streamingRequests \ {m.id}
                 /\ consumer'[m.id].pc = "thrown"
                 /\ consumer'[m.id].error = m.error
           /\ \A i \in Ids \ {m.id} :
                /\ pendingRequests'[i] = pendingRequests[i]
                /\ promise'[i] = promise[i]
                /\ consumer'[i] = consumer[i]
                /\ (i \in streamingRequests') = (i \in streamingRequests)]_vars

\* An error has rejected a call's promise with a code and details, and an
\* error has reached a stream consumer.
C5_Witness ==
    /\ last.op = "handleMessage" /\ last.type = "error" /\ last.branch = "rejected"
    /\ \E a \in Ids : /\ promise[a].state = "rejected"
                      /\ promise[a].error \in EnvErrors
                      /\ promise[a].error.details # Undefined
    /\ \E b \in Ids : /\ consumer[b].pc \in {"thrown", "failed"}
                      /\ consumer[b].error \in EnvErrors

\* C6: handling ready changes neither registry nor the initialized flag,
\* settles nothing and throws nothing, in every state.
C6_ReadyInert ==
    [][(ReadyMsg \in Handled)
        => /\ UNCHANGED settlementVars
           /\ UNCHANGED <<worker, workerTerminations, unstarted, outbox, issued>>
           /\ last'.threw = ""]_vars

\* ready has been handled on an initialized handle with a call and a stream
\* outstanding.
C6_Witness ==
    /\ last.op = "handleMessage" /\ last.type = "ready"
    /\ initialized
    /\ \E a \in Ids : pendingRequests[a] = "call"
    /\ streamingRequests # {}

\* C7: a result, error, stream_chunk or stream_close whose id has neither a
\* pending nor a streaming entry is dropped: the registries, the flag, the
\* promises and the consumers are unchanged and nothing is thrown.
C7_UnmatchedDropped ==
    [][\A m \in Handled :
        (/\ m.type # "ready"
         /\ ~MapHas(pendingRequests, m.id)
         /\ m.id \notin streamingRequests)
        => /\ UNCHANGED settlementVars
           /\ UNCHANGED <<worker, workerTerminations, unstarted, outbox, issued>>
           /\ last'.threw = ""]_vars

\* A stream_close with an unmatched id was handled while a call and a stream
\* were outstanding.
C7_Witness ==
    /\ last.op = "handleMessage" /\ last.type = "stream_close"
    /\ last.branch = "dropped"
    /\ ~MapHas(pendingRequests, last.id) /\ last.id \notin streamingRequests
    /\ \E a \in Ids : pendingRequests[a] = "call"
    /\ streamingRequests # {}

\* A step of call().
IsCall == \E args \in CallArgs : call(args[1], args[2])

\* C8: call() without a channel or with initialized false throws the
\* not-initialized error and posts no message, generates no id and registers
\* no entry.
C8_CallGuard ==
    [][(IsCall /\ (worker = "null" \/ ~initialized))
        => /\ last'.threw \in {"Worker not initialized", "Worker not ready"}
           /\ UNCHANGED <<outbox, issued, pendingRequests, promise>>
           /\ UNCHANGED <<worker, initialized, streamingRequests>>]_vars

\* call() was invoked on a handle whose channel exists and whose init has not
\* been answered.
C8_Witness ==
    /\ last.op = "call" /\ last.threw = "Worker not ready"
    /\ worker = "live" /\ ~initialized
    /\ outbox # <<>>

\* C9: terminate() on a handle with a live channel leaves the channel null and
\* both registries empty, and every call() after it throws without posting a
\* message or registering an entry.
C9_TeardownClears ==
    [][/\ (terminate /\ worker = "live")
          => /\ worker' = "null"
             /\ MapKeys(pendingRequests') = {}
             /\ streamingRequests' = {}
       /\ (IsCall /\ workerTerminations > 0)
          => /\ last'.threw # ""
             /\ UNCHANGED <<outbox, issued, pendingRequests, streamingRequests>>]_vars

\* A call and a stream were outstanding when terminate() ran, and call() was
\* invoked afterwards.
C9_Witness ==
    /\ workerTerminations = 1
    /\ last.op = "call" /\ last.threw # ""
    /\ \E a \in Ids : promise[a].state = "pending" /\ pendingRequests[a] = Absent
    /\ \E b \in Ids : consumer[b].pc = "awaiting" /\ b \notin streamingRequests

\* C10: terminate() on a handle without a channel (terminated before, or the
\* channel never created) changes nothing and throws nothing, and the channel
\* is destroyed at most once.
C10_TerminateIdempotent ==
    [][/\ (terminate /\ worker = "null")
          => /\ UNCHANGED <<ctrlVars, streamVars, promiseVars, outbox, issued>>
             /\ last'.threw = ""
       /\ workerTerminations' <= 1]_vars

\* terminate() has run a second time.
C10_Witness ==
    /\ last.op = "terminate" /\ last.branch = "noop"
    /\ workerTerminations = 1

\* The call promise of a is pending and no pending entry refers to it.
Orphaned(a) == promise[a].state = "pending" /\ pendingRequests[a] = Absent

\* The consumer of stream a is suspended at the await and no streaming entry
\* refers to its request.
Stranded(a) == consumer[a].pc = "awaiting" /\ a \notin streamingRequests

\* C11: terminate() resolves and rejects no promise, resumes no consumer and
\* posts no message; every call promise pending when it runs is left pending
\* without an entry and every consumer suspended when it runs is left suspended
\* without an entry, and no later step settles such a promise or resumes such
\* a consumer.
C11_TerminateSettlesNothing ==
    [][/\ last'.op = "terminate"
          => /\ UNCHANGED <<promise, loadPromise, consumer, request, settles, outbox>>
             /\ worker = "live"
                => \A a \in Ids :
                     /\ promise[a].state = "pending" => Orphaned(a)'
                     /\ consumer[a].pc = "awaiting" => Stranded(a)'
       /\ \A a \in Ids :
            /\ Orphaned(a) => promise'[a] = promise[a]
            /\ Stranded(a) => consumer'[a] = consumer[a]]_vars

\* terminate() ran with a call and a suspended consumer outstanding, and a
\* result carrying the call's id was handled afterwards.
C11_Witness ==
    /\ workerTerminations = 1
    /\ last.op = "handleMessage" /\ last.type = "result"
    /\ Orphaned(last.id)
    /\ \E b \in Ids : Stranded(b)

\* s is an initial part of t.
IsPrefix(s, t) == Len(s) <= Len(t) /\ \A k \in 1..Len(s) : s[k] = t[k]

\* C12: what a consumer has been yielded is an initial part of the chunk
\* values handled for its stream, in their order of arrival, and a consumer
\* that read to completion has been yielded all of them.
C12_StreamFifo ==
    \A id \in Ids :
        /\ IsPrefix(consumer[id].yielded, received[id])
        /\ (consumer[id].pc = "ended" /\ ~consumer[id].returning)
           => consumer[id].yielded = received[id]

\* C13: an error handled for an id with a streaming entry rejects the promise
\* its consumer awaits, with the error the message carries; the consumer's
\* next step is to fail with that error, having been yielded nothing more; and
\* no consumer stays for ever with a rejected promise it has not resumed from.
C13_StreamErrorReachesConsumer ==
    /\ [][/\ \A m \in Handled :
               (m.type = "error" /\ m.id \in streamingRequests)
               => /\ consumer'[m.id].pc = "thrown"
                  /\ consumer'[m.id].error = m.error
           /\ \A id \in Ids :
               (consumer[id].pc = "thrown" /\ consumer'[id] # consumer[id])
               => /\ consumer'[id].pc = "failed"
                  /\ consumer'[id].error = consumer[id].error
                  /\ consumer'[id].yielded = consumer[id].yielded]_vars
    /\ []<>(\A id \in Ids : consumer[id].pc # "thrown")

\* An error was handled for an open stream, and its consumer has resumed and
\* failed with the error of the message.
C13_Witness ==
    \E id \in Ids :
        /\ consumer[id].pc = "failed"
        /\ consumer[id].error \in EnvErrors
        /\ last.op = "streamResume" /\ last.id = id /\ last.branch = "failed"

\* C15: when a consumer stops iterating (return() on its iterator), the
\* streaming entry of its id is removed and nothing is posted, and a
\* stream_chunk, stream_close or error handled afterwards for that id changes
\* nothing.
C15_AbandonReleases ==
    [][/\ last'.op = "streamReturn"
          => /\ last'.id \notin streamingRequests'
             /\ outbox' = outbox
       /\ \A m \in Handled :
            (/\ m.type \in {"stream_chunk", "stream_close", "error"}
             /\ consumer[m.id].returning)
            => UNCHANGED settlementVars]_vars

\* How many init messages were posted.
InitsSent == Cardinality({k \in 1..Len(outbox) : outbox[k].type = "init"})

\* The messages this step has posted.
Posted == SubSeq(outbox', Len(outbox) + 1, Len(outbox'))

\* The parts of C16 about the initialized flag and about call and stream_open:
\* the flag becomes true only in the handling of a result whose id has the
\* init entry, and a call or stream_open message is posted only while the flag
\* is true.
InitGatesRequests ==
    /\ (initialized' /\ ~initialized)
       => \E m \in Handled : m.type = "result" /\ pendingRequests[m.id] = "init"
    /\ \A k \in 1..Len(Posted) :
         Posted[k].type \in {"call", "stream_open"} => initialized

\* C16 as stated: every load that has a channel posts exactly one init
\* message on it; the flag and the requests are gated as InitGatesRequests says.
C16_ExactlyOneInit ==
    [][/\ (last'.op = "init" /\ worker' = "live") => InitsSent' = 1
       /\ InitsSent' <= 1
       /\ InitGatesRequests]_vars

\* C16, amended: a load posts at most one init message: exactly one when
\* init() does not throw, and none when creating the channel or posting
\* throws, in which case the load promise is rejected; the flag and the
\* requests are gated as InitGatesRequests says.
C16_AtMostOneInit ==
    [][/\ (last'.op = "init" /\ last'.threw = "")
          => /\ Len(Posted) = 1 /\ Posted[1].type = "init" /\ Posted[1].id = last'.id
             /\ InitsSent' = 1
       /\ (last'.op = "init" /\ last'.threw # "")
          => /\ Posted = <<>> /\ InitsSent' = 0
             /\ loadPromise'.state = "rejected"
       /\ InitsSent' <= 1
       /\ InitGatesRequests]_vars

\* The load posted its init message, the result for the init id was handled,
\* and a call was posted afterwards.
C16_Witness ==
    /\ Len(outbox) = 2
    /\ outbox[1].type = "init" /\ outbox[2].type = "call"
    /\ initialized /\ loadPromise.state = "resolved"
    /\ last.op = "call" /\ last.id = outbox[2].id

\* C17: the load promise, once settled, never changes. While it is pending, a
\* result for the init id resolves it and sets initialized, an error for the
\* init id rejects it with the error of the message, and a worker error event
\* rejects it; it is resolved by nothing but the result for the init id; and
\* in every step that rejects it the initialized flag is false afterwards.
C17_LoadSettlesOnce ==
    [][/\ loadPromise.state \in {"resolved", "rejected"} => loadPromise' = loadPromise
       /\ \A m \in Handled :
            (/\ MapHas(pendingRequests, m.id)
             /\ pendingRequests[m.id] = "init"
             /\ loadPromise.state = "pending")
            => /\ m.type = "result" => (loadPromise'.state = "resolved" /\ initialized')
               /\ m.type = "error"
                  => loadPromise' =
                        [state |-> "rejected", value |-> Undefined, error |-> m.error]
       /\ (last'.op = "workerError" /\ loadPromise.state = "pending")
          => loadPromise'.state = "rejected"
       /\ (loadPromise'.state = "resolved" /\ loadPromise.state # "resolved")
          => \E m \in Handled : m.type = "result" /\ pendingRequests[m.id] = "init"
       /\ (loadPromise'.state = "rejected" /\ loadPromise.state # "rejected")
          => ~initialized']_vars

\* The worker error event rejected the load promise first, and the error
\* message for the init id was handled afterwards and changed nothing of it.
C17_Witness ==
    /\ loadPromise.state = "rejected"
    /\ loadPromise.error.message = "Worker error"
    /\ last.op = "handleMessage" /\ last.type = "error" /\ last.branch = "rejected"
    /\ ~initialized

\* The ids of the stream_open messages posted.
StreamOpenIds == {outbox[k].id : k \in {j \in 1..Len(outbox) : outbox[j].type = "stream_open"}}

\* The messages this step of the Runtime has posted.
Emitted == SubSeq(inbound', Len(inbound) + 1, Len(inbound'))

\* The error of the streaming stub.
NotImplemented ==
    [code |-> "UNKNOWN_ERROR", message |-> "Streaming not yet implemented",
     details |-> Undefined]

\* C14: the Runtime's handling of a stream_open message posts exactly one
\* message, the error UNKNOWN_ERROR with the id of the stream_open, and no
\* other step posts a message carrying the id of a stream_open; a consumer is
\* never yielded a value and fails with no other error than that one; and a
\* consumer suspended on a handle that is not terminated does fail with that
\* error, its streaming entry removed.
C14_StreamStub ==
    /\ [][/\ (last'.op = "handleStreamOpen")
             => /\ taken' = taken + 1
                /\ outbox[taken'].type = "stream_open" /\ outbox[taken'].id = last'.id
                /\ Emitted = <<ErrorMsg(last'.id, NotImplemented)>>
          /\ (last'.op # "handleStreamOpen" /\ Len(inbound') > Len(inbound))
             => \A k \in 1..Len(Emitted) : Emitted[k].id \notin StreamOpenIds
          /\ \A id \in Ids :
               /\ consumer'[id].yielded = <<>>
               /\ consumer'[id].pc = "failed" => consumer'[id].error = NotImplemented]_vars
    /\ \A id \in Ids :
          consumer[id].pc = "awaiting"
          ~> \/ /\ consumer[id].pc = "failed"
                /\ consumer[id].error = NotImplemented
                /\ id \notin streamingRequests
             \/ worker = "null"

\* A stream was consumed on an initialized handle that was not terminated:
\* its consumer has failed with the error of the stub.
C14_Witness ==
    \E id \in Ids :
        /\ consumer[id].pc = "failed" /\ consumer[id].error = NotImplemented
        /\ id \in StreamOpenIds /\ id \notin streamingRequests
        /\ worker = "live" /\ initialized

\* C18: when the fetch of the module fails, by a response that is not OK or
\* by fetch() itself failing, handleInit posts the error MODULE_FETCH_FAILED
\* for the init id and leaves state.initialized false, and a load promise
\* rejected with an initialisation failure was not rejected for a failed fetch.
C18_FetchFailureClassified ==
    /\ (last.op = "handleInit" /\ last.branch \in {"notOk", "fetchThrows"})
       => /\ last.type = "error"
          /\ last.error.code = "MODULE_FETCH_FAILED"
          /\ ~state.initialized
    /\ (loadPromise.state = "rejected" /\ loadPromise.error.code = "WASM_INIT_FAILED")
       => loadPromise.error.details.error # "fetchThrows"

\* The message of outbox the Runtime's listener takes in this step.
Taken == outbox[taken + 1]

\* The names of the exports that are functions.
CallableNames == {Exports[k].name : k \in {j \in 1..Len(Exports) : Exports[j].kind = "function"}}

\* The elements of a sequence.
Range(seq) == {seq[k] : k \in 1..Len(seq)}

\* C19: a call handled by an initialized Runtime whose fn is not the name of
\* a function export is answered with one message, an error FN_NOT_FOUND for
\* the call id whose details.availableFunctions holds the names of the
\* function exports and no other, and no function is invoked; and when the
\* Controller handles an error FN_NOT_FOUND for a pending call, the call's
\* promise is rejected with the code and the details of the message.
C19_FnNotFound ==
    [][/\ (/\ last'.op = "handleCall"
           /\ state.initialized
           /\ Taken.fn \notin CallableNames)
          => /\ Len(Emitted) = 1
             /\ Emitted[1].type = "error" /\ Emitted[1].id = Taken.id
             /\ Emitted[1].error.code = "FN_NOT_FOUND"
             /\ Range(Emitted[1].error.details.availableFunctions) = CallableNames
             /\ called' = NoCall
       /\ \A m \in Handled :
            (/\ m.type = "error"
             /\ m.error.code = "FN_NOT_FOUND"
             /\ pendingRequests[m.id] = "call")
            => /\ promise'[m.id].state = "rejected"
               /\ promise'[m.id].error.code = "FN_NOT_FOUND"
               /\ promise'[m.id].error.details = m.error.details
               /\ Range(promise'[m.id].error.details.availableFunctions) = CallableNames]_vars

\* call("memory") was sent on an initialized handle, memory being an export
\* that is not a function, and its promise was rejected with FN_NOT_FOUND.
C19_Witness ==
    \E k \in 1..Len(outbox) :
        /\ outbox[k].type = "call" /\ outbox[k].fn = "memory"
        /\ promise[outbox[k].id].state = "rejected"
        /\ promise[outbox[k].id].error.code = "FN_NOT_FOUND"
        /\ last.op = "handleMessage" /\ last.id = outbox[k].id

\* Property i of an object comes before property j in property order.
Before(entries, i, j) ==
    \/ entries[i].key.isIndex /\ ~entries[j].key.isIndex
    \/ /\ entries[i].key.isIndex /\ entries[j].key.isIndex
       /\ entries[i].key.index < entries[j].key.index
    \/ ~entries[i].key.isIndex /\ ~entries[j].key.isIndex /\ i < j

\* The values of an object in property order: array-index keys in ascending
\* order, then the other keys in creation order.
InPropertyOrder(entries) ==
    [r \in 1..Len(entries) |->
        entries[CHOOSE i \in 1..Len(entries) :
                    Cardinality({j \in 1..Len(entries) : Before(entries, j, i)}) = r - 1].val]

\* The arguments C20 names for a payload, an object's values being taken in
\* the order given by ofObject.
AdaptedArguments(payload, ofObject(_)) ==
    CASE payload.kind \in {"undefined", "null"} -> <<>>
      [] payload.kind = "object" -> ofObject(payload.entries)
      [] payload.kind = "array" -> [k \in 1..Len(payload.entries) |-> payload.entries[k].val]
      [] OTHER -> <<payload.entries[1].val>>

\* A call handled by an initialized Runtime whose fn is a function export
\* invokes that function with the adapted arguments, and when the function
\* returns, one message is posted, the result for the call id carrying the
\* value returned.
AdaptsArguments(ofObject(_)) ==
    (/\ last'.op = "handleCall"
     /\ state.initialized
     /\ Taken.fn \in CallableNames)
    => /\ called' = [fn |-> Taken.fn, args |-> AdaptedArguments(Taken.payload, ofObject)]
       /\ ~Invoke(Taken.fn, called'.args).threw
          => Emitted = <<ResultMsg(Taken.id, Invoke(Taken.fn, called'.args).value)>>

\* C20 as stated: an object's values are passed in insertion order.
C20_ArgumentAdaptation == [][AdaptsArguments(Vals)]_vars

\* C20, amended: an object's values are passed in property order, which is
\* insertion order for objects without array-index keys.
C20_ArgumentAdaptationInPropertyOrder == [][AdaptsArguments(InPropertyOrder)]_vars

\* call("add", payload) with the object payload created as {b: 1, 0: 2}
\* invoked add(2, 1), and the result 3 has resolved the call.
C20_Witness ==
    /\ called = [fn |-> "add", args |-> <<2, 1>>]
    /\ Len(outbox) = 2
    /\ outbox[2].type = "call"
    /\ outbox[2].payload = PObject(<<Entry(NameKey("b"), 1), Entry(IndexKey(0), 2)>>)
    /\ promise[outbox[2].id].state = "resolved"
    /\ promise[outbox[2].id].value = 3

\* The error handleCall posts for an invocation of fn that threw an exception
\* with the given message.
Trap(id, fn, message) ==
    ErrorMsg(id, [code |-> "WASM_TRAP", message |-> "WASM execution error",
                  details |-> [function |-> fn, error |-> message]])

\* C21: when the function handleCall invokes throws, the handler posts one
\* message, the error WASM_TRAP for the call id carrying the function name and
\* the message of the exception, the listener returns normally and the Runtime
\* goes on running; and the Runtime posts no other message, then or later,
\* with the id of a call answered with WASM_TRAP.
C21_TrapCaught ==
    [][/\ (/\ last'.op = "handleCall"
           /\ state.initialized
           /\ Taken.fn \in CallableNames
           /\ Invoke(Taken.fn, called'.args).threw)
          => /\ Emitted = <<Trap(Taken.id, Taken.fn, Invoke(Taken.fn, called'.args).message)>>
             /\ last'.threw = ""
             /\ runtime' = "running"
       /\ \A k \in 1..Len(inbound') :
            (inbound'[k].type = "error" /\ inbound'[k].error.code = "WASM_TRAP")
            => \A j \in 1..Len(inbound') : inbound'[j].id = inbound'[k].id => j = k]_vars

\* call("trap") was handled by an initialized Runtime: the function trapped
\* and the error WASM_TRAP was posted for the call.
C21_Witness ==
    /\ last.op = "handleCall" /\ last.branch = "trapped"
    /\ called.fn = "trap"
    /\ inbound[Len(inbound)] = Trap(last.id, "trap", "unreachable")

\* The Error an operation of the Controller threw in the step to this state:
\* `new Error(message)`, an Error with no code and no details property.
Raised == [code |-> "", message |-> last.threw, details |-> Undefined]

\* C22: every error a caller observes carries a code of ErrorCode: the Error
\* thrown by call() or stream() on a missing or not-ready worker, the error
\* the load promise is rejected with (an error message for the init id, a
\* failure to create the worker, the worker's 'error' event), the error a
\* call's promise is rejected with, and the error a stream consumer fails with.
C22_ErrorsCarryCode ==
    /\ last.threw # "" => Raised.code \in ErrorCode
    /\ loadPromise.state = "rejected" => loadPromise.error.code \in ErrorCode
    /\ \A id \in Ids :
         /\ promise[id].state = "rejected" => promise[id].error.code \in ErrorCode
         /\ consumer[id].pc = "failed" => consumer[id].error.code \in ErrorCode

\* C23: the first message the Runtime posts is ready, which carries no id,
\* and it posts no other ready message; the listener has taken no message
\* before ready was posted; and ready is posted.
C23_ReadyOnceFirst ==
    /\ [](/\ taken > 0 => inbound # <<>>
          /\ inbound # <<>>
             => /\ inbound[1] = ReadyMsg
                /\ inbound[1].id = NoId
                /\ \A k \in 2..Len(inbound) : inbound[k].type # "ready")
    /\ [][Len(inbound') > Len(inbound) /\ inbound'[Len(inbound')].type = "ready"
          => taken = 0 /\ inbound = <<>> /\ last'.op = "startup"]_vars
    /\ <>(inbound # <<>>)

\* The Runtime has posted ready and then the answers to two messages.
C23_Witness ==
    /\ runtime = "running"
    /\ taken >= 2
    /\ Len(inbound) >= 3
    /\ inbound[1] = ReadyMsg

\* C24: a stream_close handled for an id with a streaming entry sets the
\* entry's done flag and leaves its buffer as it is, and it resolves the
\* promise of a consumer suspended at the await; a consumer resumed from that
\* promise ends when the buffer is empty and is otherwise yielded the oldest
\* buffered value; a consumer ends with nothing left in the buffer; and a
\* consumer whose promise was resolved does resume.
C24_CloseCompletes ==
    /\ [][/\ \A m \in Handled :
               (m.type = "stream_close" /\ m.id \in streamingRequests)
               => /\ request'[m.id].done
                  /\ request'[m.id].queue = request[m.id].queue
                  /\ consumer[m.id].pc = "awaiting" => consumer'[m.id].pc = "woken"
           /\ \A id \in Ids :
               /\ (/\ consumer[id].pc = "woken" /\ request[id].done
                   /\ consumer'[id] # consumer[id])
                  => IF request[id].queue = <<>>
                     THEN consumer'[id].pc = "ended"
                     ELSE /\ consumer'[id].pc = "yielded"
                          /\ consumer'[id].yielded
                               = Append(consumer[id].yielded, Head(request[id].queue))
               /\ (consumer'[id].pc = "ended" /\ consumer[id].pc # "ended")
                  => /\ request[id].done
                     /\ request[id].queue = <<>>
                     /\ id \notin streamingRequests']_vars
    /\ []<>(\A id \in Ids : consumer[id].pc # "woken")

\* A stream_close was handled for a stream whose consumer was suspended at
\* the await, and the consumer has resumed and ended.
C24_Witness ==
    \E id \in Ids :
        /\ consumer[id].pc = "ended"
        /\ request[id].done
        /\ id \notin streamingRequests
        /\ last.op = "streamResume" /\ last.id = id /\ last.branch = "ended"

\* C25: a chunk handled for an open stream is kept in the entry's buffer, in
\* arrival order, until the consumer is given it: whenever the consumer is
\* suspended, at the await or at a yield, the chunk values handled for its
\* stream are those it has been yielded followed by those in the buffer.
C25_BufferedUntilRead ==
    \A id \in Ids :
        (id \in streamingRequests /\ consumer[id].pc \in {"awaiting", "yielded"})
        => received[id] = consumer[id].yielded \o request[id].queue

\* The messages the Runtime has posted that carry the id.
Responses(id) == {k \in 1..Len(inbound) : inbound[k].id = id}

\* C26: every message the Runtime has posted, ready apart, is a result or an
\* error carrying the id of an init, call or stream_open message its listener
\* has taken, an error when that message is a stream_open, and no two carry the
\* same id; a handler never throws and the Runtime goes on running; and every
\* message taken is answered: again and again the Runtime has posted as many
\* responses as it has taken messages.
C26_OneResponsePerRequest ==
    /\ [](/\ \A k \in 1..Len(inbound) :
               inbound[k].type # "ready"
               => /\ inbound[k].type \in {"result", "error"}
                  /\ SentAt(inbound[k].id) \in 1..taken
                  /\ outbox[SentAt(inbound[k].id)].type \in {"init", "call", "stream_open"}
                  /\ outbox[SentAt(inbound[k].id)].type = "stream_open"
                     => inbound[k].type = "error"
                  /\ Responses(inbound[k].id) = {k}
          /\ runtime \in {"none", "running"}
          /\ last.op \in {"handleInit", "handleCall", "handleStreamOpen"}
             => last.threw = "")
    /\ []<>(Len(inbound) = taken + 1)

\* An init, a call and a stream_open message were taken and each was
\* answered once.
C26_Witness ==
    /\ taken = 3
    /\ {outbox[k].type : k \in 1..3} = {"init", "call", "stream_open"}
    /\ \A id \in 1..3 : Cardinality(Responses(id)) = 1
    /\ Len(inbound) = 4

\* C27: a call handled while state.initialized is false posts one message,
\* the error NOT_INITIALIZED for the call id; no function is looked up or
\* invoked, and the Runtime's state, the initializations in progress included,
\* is as before.
C27_NotInitialized ==
    [][(last'.op = "handleCall" /\ ~state.initialized)
       => /\ Len(Emitted) = 1
          /\ Emitted[1].type = "error"
          /\ Emitted[1].id = Taken.id
          /\ Emitted[1].error.code = "NOT_INITIALIZED"
          /\ last'.branch = "notInitialized"
          /\ called' = NoCall
          /\ state' = state
          /\ initInProgress' = initInProgress
          /\ runtime' = runtime]_vars

\* A call was handled before any init: NOT_INITIALIZED was posted for it.
C27_Witness ==
    /\ last.op = "handleCall" /\ last.branch = "notInitialized"
    /\ state = NoState
    /\ inbound[Len(inbound)].type = "error"
    /\ inbound[Len(inbound)].id = last.id
    /\ inbound[Len(inbound)].error.code = "NOT_INITIALIZED"

\* C28: when the module was fetched and compiling or instantiating it
\* throws, handleInit posts one message, the error WASM_INIT_FAILED for the
\* init id whose details carry the message of the failure, and leaves the
\* Runtime's state as it was: a flag that was false stays false.
C28_InitFailure ==
    [][(last'.op = "handleInit" /\ last'.branch \in {"compileThrows", "instantiateThrows"})
       => /\ Len(Emitted) = 1
          /\ Emitted[1].type = "error"
          /\ Emitted[1].id = last'.id
          /\ last'.id \in initInProgress
          /\ Emitted[1].error.code = "WASM_INIT_FAILED"
          /\ Emitted[1].error.details.error = last'.branch
          /\ state' = state
          /\ ~state.initialized => ~state'.initialized]_vars

\* An init was handled, instantiating the module threw, and WASM_INIT_FAILED
\* was posted for the init, the Runtime not being initialized.
C28_Witness ==
    /\ last.op = "handleInit" /\ last.branch = "instantiateThrows"
    /\ ~state.initialized
    /\ inbound[Len(inbound)].id = last.id
    /\ inbound[Len(inbound)].error.code = "WASM_INIT_FAILED"
    /\ inbound[Len(inbound)].error.details.error = "instantiateThrows"

\* C29: the handling of a call message, whichever of its four outcomes it
\* has, leaves the Runtime's state (the initialized flag and the instance
\* with its exports) and the initializations in progress as they were and the
\* Runtime running; and in every state the Runtime reaches, calls answered
\* with errors before or not, a call of a function export that returns,
\* handled while the Runtime is initialized, is answered with one message,
\* the result for the call id.
C29_CallFailuresNonFatal ==
    [][/\ last'.op = "handleCall"
          => /\ last'.branch \in {"returned", "notFound", "notInitialized", "trapped"}
             /\ state' = state
             /\ initInProgress' = initInProgress
             /\ runtime' = "running"
       /\ (/\ last'.op = "handleCall"
           /\ state.initialized
           /\ Taken.fn \in CallableNames
           /\ ~Invoke(Taken.fn, called'.args).threw)
          => /\ Len(Emitted) = 1
             /\ Emitted[1].type = "result"
             /\ Emitted[1].id = Taken.id
             /\ last'.branch = "returned"]_vars

\* An initialized Runtime answered call("trap") with WASM_TRAP and then
\* call("add", [2, 1]) with the result 3.
C29_Witness ==
    /\ taken = 3 /\ Len(inbound) = 4
    /\ outbox[2].type = "call" /\ outbox[2].fn = "trap"
    /\ outbox[3].type = "call" /\ outbox[3].fn = "add"
    /\ inbound[3].type = "error" /\ inbound[3].id = 2
    /\ inbound[3].error.code = "WASM_TRAP"
    /\ inbound[4] = ResultMsg(3, 3)
    /\ state.initialized

\* The init messages the Runtime has answered with an error.
FailedInits ==
    {inbound[k].id : k \in {j \in 1..Len(inbound) :
        /\ inbound[j].type = "error"
        /\ inbound[j].error.code \in {"MODULE_FETCH_FAILED", "WASM_INIT_FAILED"}}}

\* C30 as stated: once a handleInit has ended in an error, state.initialized
\* is false in every later state, and every call handled afterwards is
\* answered with NOT_INITIALIZED.
C30_FailedIsTerminal ==
    /\ [](FailedInits # {} => ~state.initialized)
    /\ [][(FailedInits # {} /\ last'.op = "handleCall")
          => /\ Len(Emitted) = 1
             /\ Emitted[1].type = "error"
             /\ Emitted[1].error.code = "NOT_INITIALIZED"]_vars

\* C30, amended: the Runtime starts a handleInit only for an init message its
\* listener takes, for that message's id, so an init answered with an error
\* is not tried again; state.initialized changes only when the handleInit of
\* an init message succeeds, so after a failed handleInit it stays false
\* unless another init message is handled with success; and every call
\* handled while it is false, after a failed handleInit, is answered with
\* NOT_INITIALIZED.
C30_NoAutoRetry ==
    [][/\ initInProgress' \ initInProgress # {}
          => /\ last'.op = "handleInit" /\ last'.branch = "fetching"
             /\ Taken.type = "init"
             /\ taken' = taken + 1
             /\ initInProgress' = initInProgress \cup {Taken.id}
             /\ Taken.id \notin FailedInits
       /\ state' # state
          => /\ last'.op = "handleInit" /\ last'.branch = "ok"
             /\ last'.id \in initInProgress \ FailedInits
             /\ outbox[SentAt(last'.id)].type = "init"
       /\ (FailedInits # {} /\ ~state.initialized /\ last'.op = "handleCall")
          => /\ Len(Emitted) = 1
             /\ Emitted[1].type = "error"
             /\ Emitted[1].id = Taken.id
             /\ Emitted[1].error.code = "NOT_INITIALIZED"]_vars

\* The only init the Runtime was sent failed, and the call handled after it
\* was answered with NOT_INITIALIZED.
C30_Witness ==
    /\ FailedInits = {1}
    /\ \A k \in 2..Len(outbox) : outbox[k].type # "init"
    /\ ~state.initialized
    /\ last.op = "handleCall" /\ last.branch = "notInitialized"
    /\ inbound[Len(inbound)].type = "error"
    /\ inbound[Len(inbound)].error.code = "NOT_INITIALIZED"

\* C31 as stated: once state.initialized is true, no step of the Runtime
\* changes its state (the instance with its exports, the memory, the flag).
C31_PopulatedOnce == [][state.initialized => state' = state]_vars

\* C31, amended: the handling of a call or of a stream_open message never
\* changes the Runtime's state, and a handleInit that fails leaves it as it
\* was; once state.initialized is true it stays true, and the state changes
\* only when the handleInit of a later init message succeeds, which puts the
\* instance it has instantiated in the place of the earlier one.
C31_ReadOnlyButForInit ==
    [][/\ last'.op \in {"handleCall", "handleStreamOpen"} => state' = state
       /\ state.initialized
          => /\ state'.initialized
             /\ state' # state
                => /\ last'.op = "handleInit" /\ last'.branch = "ok"
                   /\ outbox[SentAt(last'.id)].type = "init"
                   /\ state'.instance = last'.id
                   /\ state'.instance # state.instance]_vars

\* Two init messages were handled with success, the second after the first
\* had completed: the Runtime holds the instance of the second.
C31_Witness ==
    /\ Len(inbound) >= 3
    /\ inbound[2].type = "result" /\ inbound[2].id = 1
    /\ inbound[3].type = "result" /\ inbound[3].id = 2
    /\ outbox[1].type = "init" /\ outbox[2].type = "init"
    /\ state.initialized /\ state.instance = 2

\* C32: in the composed system the Controller's initialized flag is true
\* only when the Runtime's is; every call message the Runtime handles finds
\* it initialized and is answered with something else than NOT_INITIALIZED;
\* and no promise of call() is rejected with NOT_INITIALIZED.
C32_ControllerImpliesRuntime ==
    /\ [](/\ initialized => state.initialized
          /\ \A id \in Ids :
               promise[id].state = "rejected"
               => promise[id].error.code # "NOT_INITIALIZED")
    /\ [][last'.op = "handleCall"
          => /\ state.initialized
             /\ last'.branch # "notInitialized"
             /\ Len(Emitted) = 1
             /\ Emitted[1].error.code # "NOT_INITIALIZED"]_vars

\* The Runtime has handled a call the Controller sent, both being initialized.
C32_Witness ==
    /\ last.op = "handleCall" /\ last.branch \in {"returned", "notFound", "trapped"}
    /\ initialized /\ state.initialized
    /\ worker = "live"

\* C33: in the composed system, where the channel delivers what is posted
\* and the Runtime's functions return or throw, a call() that has registered
\* its entry is followed by a state in which its promise is settled and its
\* entry removed, or in which the handle is terminated; and while the handle
\* is not terminated the entry of a call is removed only in the step that
\* settles its promise.
C33_CallsSettle ==
    /\ \A id \in Ids :
         (MapHas(pendingRequests, id) /\ pendingRequests[id] = "call")
         ~> \/ /\ promise[id].state \in {"resolved", "rejected"}
               /\ ~MapHas(pendingRequests, id)
            \/ worker = "null"
    /\ [][\A id \in Ids :
            (/\ pendingRequests[id] = "call"
             /\ ~MapHas(pendingRequests', id)
             /\ worker' # "null")
            => /\ promise[id].state = "pending"
               /\ promise'[id].state \in {"resolved", "rejected"}]_vars

\* Two calls were sent on a handle that was not terminated; one was resolved
\* and the other rejected, and no entry is left.
C33_Witness ==
    /\ worker = "live"
    /\ \E a, b \in Ids :
         /\ promise[a].state = "resolved"
         /\ promise[b].state = "rejected"
    /\ MapKeys(pendingRequests) = {}
    /\ inbound = <<>>

\* The id is that of a call message the Controller has posted.
IsCallId(id) == SentAt(id) > 0 /\ outbox[SentAt(id)].type = "call"

\* C34: in the composed system the responses to calls wait for delivery in
\* the order in which the calls were sent, the Runtime takes the messages in
\* the order they were posted, and a call's promise is settled only when the
\* promises of the calls sent before it are settled.
C34_CallsSettleInOrder ==
    /\ [](\A k, j \in 1..Len(inbound) :
             (k < j /\ IsCallId(inbound[k].id) /\ IsCallId(inbound[j].id))
             => SentAt(inbound[k].id) < SentAt(inbound[j].id))
    /\ [][/\ last'.op = "handleCall" => Taken.id = last'.id /\ taken' = taken + 1
          /\ \A a, b \in Ids :
               (/\ IsCallId(a) /\ IsCallId(b)
                /\ SentAt(a) < SentAt(b)
                /\ promise[b].state = "pending"
                /\ promise'[b].state \in {"resolved", "rejected"})
               => promise[a].state \in {"resolved", "rejected"}]_vars

\* Calls A and B were sent in that order and both were answered before either
\* answer was delivered; A's promise is now settled and B's is still pending.
C34_Witness ==
    \E a, b \in Ids :
        /\ IsCallId(a) /\ IsCallId(b) /\ SentAt(a) < SentAt(b)
        /\ last.op = "handleMessage" /\ last.id = a
        /\ promise[a].state \in {"resolved", "rejected"}
        /\ promise[b].state = "pending"
        /\ inbound # <<>> /\ Head(inbound).id = b

\* C35: the buffer of every streaming entry is empty in every state the
\* Controller is in between the handling of messages, and the handling of a
\* stream_chunk for an id with a streaming entry leaves the buffer as empty as
\* it found it: the value appended is taken out again in the same step.
C35_BufferAlwaysEmpty ==
    /\ [](\A id \in Ids : request[id].queue = <<>>)
    /\ [][\A m \in Handled :
            (m.type = "stream_chunk" /\ m.id \in streamingRequests)
            => /\ last'.branch = "chunk"
               /\ request'[m.id].queue = <<>>
               /\ m.id \in streamingRequests']_vars

\* A stream_chunk was handled for an open stream: its buffer is empty.
C35_Witness ==
    /\ last.op = "handleMessage" /\ last.type = "stream_chunk" /\ last.branch = "chunk"
    /\ last.id \in streamingRequests
    /\ request[last.id].queue = <<>>
    /\ consumer[last.id].pc = "woken"

\* C36: whenever this.worker is null, pendingRequests and streamingRequests
\* are empty and this.initialized is false; and a step that starts and ends
\* with this.worker null leaves the two registries and the flag as they were.
C36_NullHandleIsIdle ==
    /\ [](worker = "null"
          => /\ MapKeys(pendingRequests) = {}
             /\ streamingRequests = {}
             /\ ~initialized)
    /\ [][(worker = "null" /\ worker' = "null")
          => UNCHANGED <<pendingRequests, streamingRequests, initialized>>]_vars

\* A handle that had registered entries was terminated, and a message was
\* handled afterwards.
C36_Witness ==
    /\ worker = "null" /\ workerTerminations = 1
    /\ Cardinality(issued) >= 2
    /\ last.op = "handleMessage"
    /\ MapKeys(pendingRequests) = {} /\ streamingRequests = {} /\ ~initialized

\* C37: stream() posts nothing, generates no id and registers nothing; the
\* consumer's first read, when the channel is null or the handle is not
\* initialized, throws and posts nothing, generates no id and registers
\* nothing, and otherwise it generates a fresh id, registers the streaming
\* entry under it and posts one stream_open carrying it; and no other step
\* registers a streaming entry or posts a stream_open.
C37_StreamLazyGuarded ==
    [][/\ last'.op = "stream"
          => UNCHANGED <<outbox, issued, pendingRequests, streamingRequests, request, consumer>>
       /\ last'.op = "streamStart"
          => IF worker = "null" \/ ~initialized
             THEN /\ last'.threw # ""
                  /\ UNCHANGED <<outbox, issued, pendingRequests, streamingRequests,
                                 request, consumer>>
             ELSE /\ last'.threw = ""
                  /\ last'.id \in Ids \ issued
                  /\ issued' = issued \cup {last'.id}
                  /\ streamingRequests' = streamingRequests \cup {last'.id}
                  /\ Len(outbox') = Len(outbox) + 1
                  /\ outbox'[Len(outbox')].type = "stream_open"
                  /\ outbox'[Len(outbox')].id = last'.id
                  /\ SubSeq(outbox', 1, Len(outbox)) = outbox
       /\ (\/ streamingRequests' \ streamingRequests # {}
           \/ /\ Len(outbox') > Len(outbox)
              /\ outbox'[Len(outbox')].type = "stream_open")
          => last'.op = "streamStart"]_vars

\* The first read of a sequence on a handle that had been initialized and
\* then terminated has failed: nothing is registered and no stream_open was
\* posted.
C37_Witness ==
    /\ last.op = "streamStart" /\ last.threw = "Worker not initialized"
    /\ workerTerminations = 1
    /\ streamingRequests = {}
    /\ Len(outbox) >= 1
    /\ \A k \in 1..Len(outbox) : outbox[k].type # "stream_open"

\* The message is of the wrong kind for the one entry its id matches.
WrongKind(m) ==
    \/ /\ m.type = "result"
       /\ m.id \in streamingRequests /\ ~MapHas(pendingRequests, m.id)
    \/ /\ m.type \in {"stream_chunk", "stream_close"}
       /\ MapHas(pendingRequests, m.id) /\ m.id \notin streamingRequests

\* C38: the handling of a result whose id has a streaming entry and no pending
\* entry, and of a stream_chunk or stream_close whose id has a pending entry
\* and no streaming entry, changes neither registry, settles no promise and
\* wakes no consumer: the entry the id matches is still there.
C38_WrongKindIgnored ==
    [][\A m \in Handled :
         WrongKind(m)
         => /\ UNCHANGED <<pendingRequests, streamingRequests, initialized, request,
                           consumer, promise, loadPromise, settles>>
            /\ last'.branch = "dropped"]_vars

\* A result was handled whose id is that of an open stream: the stream's
\* entry is still registered and its consumer still suspended.
C38_Witness ==
    /\ last.op = "handleMessage" /\ last.type = "result" /\ last.branch = "dropped"
    /\ last.id \in streamingRequests
    /\ consumer[last.id].pc = "awaiting"
    /\ ~request[last.id].done

C40_WorkerErrorOnlyRejectsLoad ==
    [][last'.op = "workerError"
       => /\ IF loadPromise.state = "pending"
             THEN loadPromise'.state = "rejected"
             ELSE loadPromise' = loadPromise
          /\ UNCHANGED <<worker, initialized, pendingRequests, streamingRequests,
                         request, consumer, promise, settles>>]_vars

\* The worker fired 'error' after load had resolved, with a call and a stream
\* outstanding: both are still outstanding.
C40_Witness ==
    /\ last.op = "workerError"
    /\ loadPromise.state = "resolved"
    /\ \E a \in Ids : pendingRequests[a] = "call" /\ promise[a].state = "pending"
    /\ \E b \in streamingRequests : consumer[b].pc = "awaiting"

====
